---- MODULE Spec2Model ----
(***************************************************************************)
(* ts-object-manager: the object utilities of src/index.ts, run on a heap  *)
(* of JavaScript objects.                                                  *)
(*                                                                         *)
(* A client program builds containers (maps and arrays) in the heap and    *)
(* then calls library functions on them.  Every library function is an     *)
(* operator from (heap, arguments) to (heap, value, completion), computed   *)
(* the way the TypeScript computes it: containers are addresses in the     *)
(* heap, so reference identity, sharing, cycles and in-place writes are    *)
(* visible; a completion is "ok", "TypeError" (thrown by the engine) or    *)
(* "RangeError" (call stack exhausted by unbounded recursion).             *)
(***************************************************************************)
EXTENDS Integers, Sequences, FiniteSets, TLC

VARIABLES heap, calls

vars == <<heap, calls>>

(***************************************************************************)
(* Bounds of the model.                                                    *)
(***************************************************************************)
MaxGraphObjs == 2
MaxGraphArrLen == 1
MaxDiffObjs == 3
MaxPairObjs == 3
MaxTreeObjs == 2
MaxTreeArrLen == 1
StackLimit == 10

(***************************************************************************)
(* JavaScript values.  Strings and property keys are sequences of          *)
(* characters, so that joining with "." and splitting on "." are computed. *)
(***************************************************************************)
Undefined == [t |-> "undefined", n |-> 0, s |-> <<>>]
Null == [t |-> "null", n |-> 0, s |-> <<>>]
NaN == [t |-> "NaN", n |-> 0, s |-> <<>>]
Num(i) == [t |-> "number", n |-> i, s |-> <<>>]
Bool(b) == [t |-> "boolean", n |-> IF b THEN 1 ELSE 0, s |-> <<>>]
Str(cs) == [t |-> "string", n |-> 0, s |-> cs]
Fn(i) == [t |-> "function", n |-> i, s |-> <<>>]
Ref(a) == [t |-> "ref", n |-> a, s |-> <<>>]

TypeOf(v) ==
  CASE v.t \in {"ref", "null"} -> "object"
    [] v.t \in {"number", "NaN"} -> "number"
    [] OTHER -> v.t

StrictEq(x, y) == x.t # "NaN" /\ x = y

Truthy(v) ==
  CASE v.t \in {"undefined", "null", "NaN"} -> FALSE
    [] v.t = "number" -> v.n # 0
    [] v.t = "boolean" -> v.n = 1
    [] v.t = "string" -> v.s # <<>>
    [] OTHER -> TRUE

(***************************************************************************)
(* Heap objects: own enumerable properties in insertion order; an array    *)
(* owns the index keys "0", "1", ... in order.                             *)
(***************************************************************************)
NewObj(isArr) == [arr |-> isArr, props |-> <<>>, frozen |-> FALSE]

Digit == <<"0", "1", "2", "3", "4", "5", "6", "7", "8", "9">>

IndexKey(i) == <<Digit[i + 1]>>

KeyIdx(o, k) ==
  IF \E i \in 1..Len(o.props) : o.props[i].k = k
  THEN CHOOSE i \in 1..Len(o.props) : o.props[i].k = k
  ELSE 0

OwnKeysOf(o) == [i \in 1..Len(o.props) |-> o.props[i].k]

HasOwn(h, v, k) == v.t = "ref" /\ KeyIdx(h[v.n], k) # 0

Get(h, v, k) ==
  IF v.t = "ref" /\ KeyIdx(h[v.n], k) # 0
  THEN h[v.n].props[KeyIdx(h[v.n], k)].v
  ELSE Undefined

IsIndexKey(k) == Len(k) = 1 /\ \E i \in 1..Len(Digit) : Digit[i] = k[1]

IndexOf(k) == (CHOOSE i \in 1..Len(Digit) : Digit[i] = k[1]) - 1

\* o[k] = v: an own key keeps its place; a new integer key goes in ascending
\* order before the string keys, a new string key goes last.
Put(h, a, k, v) ==
  LET ps == h[a].props
      i == KeyIdx(h[a], k)
      before == Cardinality({j \in 1..Len(ps) :
                              IsIndexKey(ps[j].k) /\ IndexOf(ps[j].k) < IndexOf(k)})
  IN IF i # 0
     THEN [h EXCEPT ![a].props[i].v = v]
     ELSE IF IsIndexKey(k)
     THEN [h EXCEPT ![a].props = SubSeq(ps, 1, before) \o <<[k |-> k, v |-> v]>>
                                   \o SubSeq(ps, before + 1, Len(ps))]
     ELSE [h EXCEPT ![a].props = Append(ps, [k |-> k, v |-> v])]

IsArray(h, v) == v.t = "ref" /\ h[v.n].arr

Ok(h, v) == [h |-> h, v |-> v, st |-> "ok"]
Throw(h, e) == [h |-> h, v |-> Undefined, st |-> e]

isObject(obj) == TypeOf(obj) = "object" /\ obj # Null

(***************************************************************************)
(* Engine operations on arbitrary values: Object.keys, property read, the  *)
(* "in" operator and object spread.                                        *)
(***************************************************************************)
RECURSIVE IndexKeys(_)
IndexKeys(len) == IF len = 0 THEN <<>> ELSE Append(IndexKeys(len - 1), IndexKey(len - 1))

InSeq(x, sq) == \E i \in 1..Len(sq) : sq[i] = x

NullOrUndefined(v) == v.t \in {"null", "undefined"}

\* Object.keys(v); a TypeError for null and undefined is the caller's to raise.
ObjectKeys(h, v) ==
  CASE v.t = "ref" -> OwnKeysOf(h[v.n])
    [] v.t = "string" -> IndexKeys(Len(v.s))
    [] OTHER -> <<>>

\* The own, non-enumerable key "length" of arrays and strings.
LengthKey == <<"l", "e", "n", "g", "t", "h">>

\* v[k] for a value that is neither null nor undefined.
GetV(h, v, k) ==
  CASE v.t = "ref" /\ h[v.n].arr /\ k = LengthKey -> Num(Len(h[v.n].props))
    [] v.t = "ref" /\ ~(h[v.n].arr /\ k = LengthKey) -> Get(h, v, k)
    [] v.t = "string" /\ k = LengthKey -> Num(Len(v.s))
    [] v.t = "string" /\ InSeq(k, IndexKeys(Len(v.s))) ->
         Str(<<v.s[(CHOOSE i \in 1..Len(v.s) : IndexKey(i - 1) = k)]>>)
    [] OTHER -> Undefined

\* { ...v }: a new map owning copies of the own enumerable properties of v.
Spread(h, v) ==
  LET ks == ObjectKeys(h, v)
      o == [arr |-> FALSE, frozen |-> FALSE,
            props |-> [i \in 1..Len(ks) |-> [k |-> ks[i], v |-> GetV(h, v, ks[i])]]]
  IN Ok(Append(h, o), Ref(Len(h) + 1))

\* The "in" operator throws a TypeError on a right operand that is no object.
InThrows(v) == v.t \notin {"ref", "function"}

\* The keys a for-in loop visits: none for null, undefined and other primitives.
ForInKeys(h, v) == ObjectKeys(h, v)

\* v.hasOwnProperty(k), for v neither null nor undefined.
HasOwnProperty(h, v, k) ==
  CASE v.t = "ref" -> HasOwn(h, v, k) \/ (h[v.n].arr /\ k = LengthKey)
    [] v.t = "string" -> InSeq(k, IndexKeys(Len(v.s))) \/ k = LengthKey
    [] OTHER -> FALSE

\* target[k] = v in strict mode: a TypeError on a primitive or frozen target.
Assign(h, target, k, v) ==
  IF target.t # "ref" THEN Throw(h, "TypeError")
  ELSE IF h[target.n].frozen THEN Throw(h, "TypeError")
  ELSE Ok(Put(h, target.n, k, v), v)

\* key.split("."): the segments between the dots, empty ones included.
RECURSIVE Split(_)
Split(cs) ==
  IF ~InSeq(".", cs) THEN <<cs>>
  ELSE LET i == CHOOSE j \in 1..Len(cs) :
                  cs[j] = "." /\ \A l \in 1..(j - 1) : cs[l] # "."
       IN <<SubSeq(cs, 1, i - 1)>> \o Split(SubSeq(cs, i + 1, Len(cs)))

RECURSIVE SeqMinus(_, _)
SeqMinus(sq, without) ==
  IF sq = <<>> THEN <<>>
  ELSE IF InSeq(Head(sq), without) THEN SeqMinus(Tail(sq), without)
  ELSE <<Head(sq)>> \o SeqMinus(Tail(sq), without)

(***************************************************************************)
(* cloneObject                                                             *)
(***************************************************************************)
RECURSIVE clone(_, _, _, _)
RECURSIVE cloneProps(_, _, _, _, _, _)

cloneProps(h, m, in, out, i, d) ==
  IF i > Len(h[in].props)
  THEN [h |-> h, m |-> m, v |-> Ref(out), st |-> "ok"]
  ELSE LET p == h[in].props[i]
           r == clone(h, m, p.v, d + 1)
       IN IF r.st # "ok"
          THEN r
          ELSE cloneProps(Put(r.h, out, p.k, r.v), r.m, in, out, i + 1, d)

\* Mutant: the revisit of a container hands back the input container itself.
clone_RevisitReturnsInput(h, m, input, d) ==
  IF d > StackLimit
  THEN [h |-> h, m |-> m, v |-> Undefined, st |-> "RangeError"]
  ELSE IF input = Null \/ TypeOf(input) # "object"
  THEN [h |-> h, m |-> m, v |-> input, st |-> "ok"]
  ELSE IF input.n \in DOMAIN m
  THEN [h |-> h, m |-> m, v |-> input, st |-> "ok"]
  ELSE LET out == Len(h) + 1
       IN cloneProps(Append(h, NewObj(IsArray(h, input))),
                     (input.n :> out) @@ m, input.n, out, 1, d)

\* Mutant: an array is handed over as it is instead of being copied.
clone_ArraysByReference(h, m, input, d) ==
  IF d > StackLimit
  THEN [h |-> h, m |-> m, v |-> Undefined, st |-> "RangeError"]
  ELSE IF input = Null \/ TypeOf(input) # "object" \/ IsArray(h, input)
  THEN [h |-> h, m |-> m, v |-> input, st |-> "ok"]
  ELSE IF input.n \in DOMAIN m
  THEN [h |-> h, m |-> m, v |-> Ref(m[input.n]), st |-> "ok"]
  ELSE LET out == Len(h) + 1
       IN cloneProps(Append(h, NewObj(IsArray(h, input))),
                     (input.n :> out) @@ m, input.n, out, 1, d)

clone(h, m, input, d) ==
  IF d > StackLimit
  THEN [h |-> h, m |-> m, v |-> Undefined, st |-> "RangeError"]
  ELSE IF input = Null \/ TypeOf(input) # "object"
  THEN [h |-> h, m |-> m, v |-> input, st |-> "ok"]
  ELSE IF input.n \in DOMAIN m
  THEN [h |-> h, m |-> m, v |-> Ref(m[input.n]), st |-> "ok"]
  ELSE LET out == Len(h) + 1
       IN cloneProps(Append(h, NewObj(IsArray(h, input))),
                     (input.n :> out) @@ m, input.n, out, 1, d)

cloneObject(h, obj) ==
  LET r == clone(h, << >>, obj, 1)
  IN [h |-> r.h, v |-> r.v, st |-> r.st]

(***************************************************************************)
(* getObjectDiffIterative                                                  *)
(***************************************************************************)
RECURSIVE getObjectDiff(_, _, _, _, _)
RECURSIVE getObjectDiffKeys(_, _, _, _, _, _, _, _)

\* Mutant: a key that only objA owns is left out of the diff.
getObjectDiffKeys_RemovedKeyOmitted(h, visited, objA, objB, diff, allKeys, i, d) ==
  IF i > Len(allKeys)
  THEN [h |-> h, visited |-> visited, v |-> Ref(diff), st |-> "ok"]
  ELSE
    LET key == allKeys[i]
        valueA == GetV(h, objA, key)
        valueB == GetV(h, objB, key)
        next(h2, vis2) == getObjectDiffKeys(h2, vis2, objA, objB, diff, allKeys, i + 1, d)
    IN IF InThrows(objA)
       THEN [h |-> h, visited |-> visited, v |-> Undefined, st |-> "TypeError"]
       ELSE IF ~HasOwn(h, objA, key)
       THEN next(Put(h, diff, key, valueB), visited)
       ELSE IF InThrows(objB)
       THEN [h |-> h, visited |-> visited, v |-> Undefined, st |-> "TypeError"]
       ELSE IF ~HasOwn(h, objB, key)
       THEN next(h, visited)
       ELSE IF ~StrictEq(valueA, valueB)
       THEN IF isObject(valueA) /\ isObject(valueB)
            THEN IF valueA.n \in DOMAIN visited /\ visited[valueA.n] = valueB
                 THEN next(h, visited)
                 ELSE LET vis1 == IF valueA.n \in DOMAIN visited
                                  THEN visited
                                  ELSE (valueA.n :> valueB) @@ visited
                          r == getObjectDiff(h, vis1, valueA, valueB, d + 1)
                      IN IF r.st # "ok"
                         THEN r
                         ELSE IF Len(ObjectKeys(r.h, r.v)) > 0
                         THEN next(Put(r.h, diff, key, r.v), r.visited)
                         ELSE next(r.h, r.visited)
            ELSE next(Put(h, diff, key, valueB), visited)
       ELSE next(h, visited)

\* Mutant: a nested diff is stored under its key even when it is empty.
getObjectDiffKeys_EmptyNestedKept(h, visited, objA, objB, diff, allKeys, i, d) ==
  IF i > Len(allKeys)
  THEN [h |-> h, visited |-> visited, v |-> Ref(diff), st |-> "ok"]
  ELSE
    LET key == allKeys[i]
        valueA == GetV(h, objA, key)
        valueB == GetV(h, objB, key)
        next(h2, vis2) == getObjectDiffKeys(h2, vis2, objA, objB, diff, allKeys, i + 1, d)
    IN IF InThrows(objA)
       THEN [h |-> h, visited |-> visited, v |-> Undefined, st |-> "TypeError"]
       ELSE IF ~HasOwn(h, objA, key)
       THEN next(Put(h, diff, key, valueB), visited)
       ELSE IF InThrows(objB)
       THEN [h |-> h, visited |-> visited, v |-> Undefined, st |-> "TypeError"]
       ELSE IF ~HasOwn(h, objB, key)
       THEN next(Put(h, diff, key, Undefined), visited)
       ELSE IF ~StrictEq(valueA, valueB)
       THEN IF isObject(valueA) /\ isObject(valueB)
            THEN IF valueA.n \in DOMAIN visited /\ visited[valueA.n] = valueB
                 THEN next(h, visited)
                 ELSE LET vis1 == IF valueA.n \in DOMAIN visited
                                  THEN visited
                                  ELSE (valueA.n :> valueB) @@ visited
                          r == getObjectDiff(h, vis1, valueA, valueB, d + 1)
                      IN IF r.st # "ok"
                         THEN r
                         ELSE IF TRUE
                         THEN next(Put(r.h, diff, key, r.v), r.visited)
                         ELSE next(r.h, r.visited)
            ELSE next(Put(h, diff, key, valueB), visited)
       ELSE next(h, visited)

getObjectDiffKeys(h, visited, objA, objB, diff, allKeys, i, d) ==
  IF i > Len(allKeys)
  THEN [h |-> h, visited |-> visited, v |-> Ref(diff), st |-> "ok"]
  ELSE
    LET key == allKeys[i]
        valueA == GetV(h, objA, key)
        valueB == GetV(h, objB, key)
        next(h2, vis2) == getObjectDiffKeys(h2, vis2, objA, objB, diff, allKeys, i + 1, d)
    IN IF InThrows(objA)
       THEN [h |-> h, visited |-> visited, v |-> Undefined, st |-> "TypeError"]
       ELSE IF ~HasOwn(h, objA, key)
       THEN next(Put(h, diff, key, valueB), visited)
       ELSE IF InThrows(objB)
       THEN [h |-> h, visited |-> visited, v |-> Undefined, st |-> "TypeError"]
       ELSE IF ~HasOwn(h, objB, key)
       THEN next(Put(h, diff, key, Undefined), visited)
       ELSE IF ~StrictEq(valueA, valueB)
       THEN IF isObject(valueA) /\ isObject(valueB)
            THEN IF valueA.n \in DOMAIN visited /\ visited[valueA.n] = valueB
                 THEN next(h, visited)
                 ELSE LET vis1 == IF valueA.n \in DOMAIN visited
                                  THEN visited
                                  ELSE (valueA.n :> valueB) @@ visited
                          r == getObjectDiff(h, vis1, valueA, valueB, d + 1)
                      IN IF r.st # "ok"
                         THEN r
                         ELSE IF Len(ObjectKeys(r.h, r.v)) > 0
                         THEN next(Put(r.h, diff, key, r.v), r.visited)
                         ELSE next(r.h, r.visited)
            ELSE next(Put(h, diff, key, valueB), visited)
       ELSE next(h, visited)

getObjectDiff(h, visited, objA, objB, d) ==
  IF d > StackLimit
  THEN [h |-> h, visited |-> visited, v |-> Undefined, st |-> "RangeError"]
  ELSE IF objA = Null /\ objB = Null
  THEN [h |-> h, visited |-> visited, v |-> Undefined, st |-> "ok"]
  ELSE IF objA = Null
  THEN [h |-> Spread(h, objB).h, visited |-> visited, v |-> Spread(h, objB).v, st |-> "ok"]
  ELSE IF objB = Null
  THEN [h |-> Spread(h, objA).h, visited |-> visited, v |-> Spread(h, objA).v, st |-> "ok"]
  ELSE IF objA = Undefined \/ objB = Undefined
  THEN [h |-> h, visited |-> visited, v |-> Undefined, st |-> "TypeError"]
  ELSE LET keysA == ObjectKeys(h, objA)
           keysB == ObjectKeys(h, objB)
           allKeys == keysA \o SeqMinus(keysB, keysA)
       IN getObjectDiffKeys(Append(h, NewObj(FALSE)), visited, objA, objB,
                            Len(h) + 1, allKeys, 1, d)

getObjectDiffIterative(h, objA, objB) ==
  LET r == getObjectDiff(h, << >>, objA, objB, 1)
  IN [h |-> r.h, v |-> r.v, st |-> r.st]

(***************************************************************************)
(* getAllObjectKeys                                                        *)
(***************************************************************************)
getAllObjectKeys_isObject(h, value) ==
  value # Null /\ TypeOf(value) = "object" /\ ~IsArray(h, value)

RECURSIVE getAllKeys(_, _, _, _, _)
RECURSIVE getAllKeysProps(_, _, _, _, _, _, _)

getAllKeysProps(h, obj, parentKey, visited, keys, i, d) ==
  IF i > Len(h[obj.n].props)
  THEN [keys |-> keys, visited |-> visited, st |-> "ok"]
  ELSE LET key == h[obj.n].props[i].k
           fullKey == IF parentKey # <<>> THEN parentKey \o <<".">> \o key ELSE key
       IN IF getAllObjectKeys_isObject(h, Get(h, obj, key))
          THEN LET r == getAllKeys(h, Get(h, obj, key), fullKey, visited, d + 1)
               IN IF r.st # "ok"
                  THEN r
                  ELSE getAllKeysProps(h, obj, parentKey, r.visited,
                                       keys \o r.keys, i + 1, d)
          ELSE getAllKeysProps(h, obj, parentKey, visited,
                               Append(keys, fullKey), i + 1, d)

\* Mutant: no visited check, every container is entered again.
getAllKeys_NoVisited(h, obj, parentKey, visited, d) ==
  IF d > StackLimit
  THEN [keys |-> <<>>, visited |-> visited, st |-> "RangeError"]
  ELSE IF obj.t \notin {"ref", "function"}
  THEN [keys |-> <<>>, visited |-> visited, st |-> "TypeError"]
  ELSE IF getAllObjectKeys_isObject(h, obj)
  THEN getAllKeysProps(h, obj, parentKey, visited \cup {obj.n}, <<>>, 1, d)
  ELSE [keys |-> <<>>, visited |-> visited, st |-> "ok"]

getAllKeys(h, obj, parentKey, visited, d) ==
  IF d > StackLimit
  THEN [keys |-> <<>>, visited |-> visited, st |-> "RangeError"]
  ELSE IF obj.t = "ref" /\ obj.n \in visited
  THEN [keys |-> <<>>, visited |-> visited, st |-> "ok"]
  ELSE IF obj.t \notin {"ref", "function"}
  THEN [keys |-> <<>>, visited |-> visited, st |-> "TypeError"]
  ELSE IF getAllObjectKeys_isObject(h, obj)
  THEN getAllKeysProps(h, obj, parentKey, visited \cup {obj.n}, <<>>, 1, d)
  ELSE [keys |-> <<>>, visited |-> visited, st |-> "ok"]

\* The returned string[] is a new array in the heap.
getAllObjectKeys(h, obj) ==
  LET r == getAllKeys(h, obj, <<>>, {}, 1)
      o == [arr |-> TRUE, frozen |-> FALSE,
            props |-> [i \in 1..Len(r.keys) |-> [k |-> IndexKey(i - 1), v |-> Str(r.keys[i])]]]
  IN IF r.st = "ok" THEN Ok(Append(h, o), Ref(Len(h) + 1)) ELSE Throw(h, r.st)

(***************************************************************************)
(* isObjectDeepEqual                                                       *)
(***************************************************************************)
RECURSIVE deepEqual(_, _, _, _)
RECURSIVE deepEqualKeys(_, _, _, _, _, _)

deepEqualKeys(h, obj1, obj2, keys1, i, d) ==
  IF i > Len(keys1)
  THEN Ok(h, Bool(TRUE))
  ELSE LET r == deepEqual(h, GetV(h, obj1, keys1[i]), GetV(h, obj2, keys1[i]), d + 1)
       IN IF r.st # "ok" \/ r.v = Bool(FALSE)
          THEN r
          ELSE deepEqualKeys(h, obj1, obj2, keys1, i + 1, d)

deepEqual(h, obj1, obj2, d) ==
  IF d > StackLimit
  THEN Throw(h, "RangeError")
  ELSE IF TypeOf(obj1) # TypeOf(obj2)
  THEN Ok(h, Bool(FALSE))
  ELSE IF TypeOf(obj1) = "object" /\ TypeOf(obj2) = "object" /\ obj1 # Null /\ obj2 # Null
  THEN IF IsArray(h, obj1) # IsArray(h, obj2)
       THEN Ok(h, Bool(FALSE))
       ELSE IF Len(ObjectKeys(h, obj1)) # Len(ObjectKeys(h, obj2))
       THEN Ok(h, Bool(FALSE))
       ELSE deepEqualKeys(h, obj1, obj2, ObjectKeys(h, obj1), 1, d)
  ELSE Ok(h, Bool(StrictEq(obj1, obj2)))

isObjectDeepEqual(h, obj1, obj2) == deepEqual(h, obj1, obj2, 1)

(***************************************************************************)
(* removeUndefinedKeys                                                     *)
(***************************************************************************)
RECURSIVE removeUndefined(_, _, _)
RECURSIVE removeUndefinedElems(_, _, _, _, _)
RECURSIVE removeUndefinedProps(_, _, _, _, _)

removeUndefinedElems(h, in, out, i, d) ==
  IF i > Len(h[in].props)
  THEN Ok(h, Ref(out))
  ELSE LET e == h[in].props[i].v
       IN IF e = Undefined
          THEN removeUndefinedElems(h, in, out, i + 1, d)
          ELSE LET r == removeUndefined(h, e, d + 1)
               IN IF r.st # "ok"
                  THEN r
                  ELSE removeUndefinedElems(
                         Put(r.h, out, IndexKey(Len(r.h[out].props)), r.v),
                         in, out, i + 1, d)

removeUndefinedProps(h, in, out, i, d) ==
  IF i > Len(h[in].props)
  THEN Ok(h, Ref(out))
  ELSE LET p == h[in].props[i]
           r == removeUndefined(h, p.v, d + 1)
       IN IF r.st # "ok"
          THEN r
          ELSE IF r.v # Undefined
          THEN removeUndefinedProps(Put(r.h, out, p.k, r.v), in, out, i + 1, d)
          ELSE removeUndefinedProps(r.h, in, out, i + 1, d)

\* Mutant: a map left without keys becomes undefined, as in removeEmptyObjects.
removeUndefined_EmptyIsUndefined(h, obj, d) ==
  IF d > StackLimit
  THEN Throw(h, "RangeError")
  ELSE IF TypeOf(obj) # "object" \/ obj = Null
  THEN Ok(h, obj)
  ELSE IF IsArray(h, obj)
  THEN removeUndefinedElems(Append(h, NewObj(TRUE)), obj.n, Len(h) + 1, 1, d)
  ELSE LET r == removeUndefinedProps(Append(h, NewObj(FALSE)), obj.n, Len(h) + 1, 1, d)
       IN IF r.st = "ok" /\ r.h[r.v.n].props = <<>> THEN Ok(r.h, Undefined) ELSE r

removeUndefined(h, obj, d) ==
  IF d > StackLimit
  THEN Throw(h, "RangeError")
  ELSE IF TypeOf(obj) # "object" \/ obj = Null
  THEN Ok(h, obj)
  ELSE IF IsArray(h, obj)
  THEN removeUndefinedElems(Append(h, NewObj(TRUE)), obj.n, Len(h) + 1, 1, d)
  ELSE removeUndefinedProps(Append(h, NewObj(FALSE)), obj.n, Len(h) + 1, 1, d)

removeUndefinedKeys(h, obj) == removeUndefined(h, obj, 1)

(***************************************************************************)
(* transformToFlattenObject                                                *)
(***************************************************************************)
RECURSIVE flatten(_, _, _, _, _, _)

\* Mutant: the path prefix is dropped, a nested leaf is stored under its own key.
flatten_DropsPrefix(h, flattenObj, obj, prefix, i, d) ==
  IF d > StackLimit
  THEN Throw(h, "RangeError")
  ELSE IF i > Len(ForInKeys(h, obj))
  THEN Ok(h, Ref(flattenObj))
  ELSE LET key == ForInKeys(h, obj)[i]
           value == GetV(h, obj, key)
       IN IF TypeOf(value) = "object" /\ value # Null
          THEN LET r == flatten(h, flattenObj, value, key, 1, d + 1)
               IN IF r.st # "ok" THEN r ELSE flatten(r.h, flattenObj, obj, prefix, i + 1, d)
          ELSE flatten(Put(h, flattenObj, key, value), flattenObj, obj, prefix, i + 1, d)

\* The for-in loop of flatten(obj, prefix) from its i-th key on.
flatten(h, flattenObj, obj, prefix, i, d) ==
  IF d > StackLimit
  THEN Throw(h, "RangeError")
  ELSE IF i > Len(ForInKeys(h, obj))
  THEN Ok(h, Ref(flattenObj))
  ELSE LET key == ForInKeys(h, obj)[i]
           value == GetV(h, obj, key)
           newKey == IF prefix # <<>> THEN prefix \o <<".">> \o key ELSE key
       IN IF TypeOf(value) = "object" /\ value # Null
          THEN LET r == flatten(h, flattenObj, value, newKey, 1, d + 1)
               IN IF r.st # "ok" THEN r ELSE flatten(r.h, flattenObj, obj, prefix, i + 1, d)
          ELSE flatten(Put(h, flattenObj, newKey, value), flattenObj, obj, prefix, i + 1, d)

transformToFlattenObject(h, obj) ==
  IF ~isObject(obj)
  THEN Ok(h, Undefined)
  ELSE flatten(Append(h, NewObj(FALSE)), Len(h) + 1, obj, <<>>, 1, 2)

(***************************************************************************)
(* transformToUnflattenObject                                              *)
(***************************************************************************)
RECURSIVE unflattenReduce(_, _, _, _, _, _)
RECURSIVE unflattenKeys(_, _, _, _, _)

\* keys.reduce(...) from segment idx on, acc being the accumulator.  The module
\* is an ES module, hence strict: a write to a primitive or frozen acc throws.
unflattenReduce(h, acc, keys, idx, obj, key) ==
  IF idx > Len(keys)
  THEN Ok(h, acc)
  ELSE IF NullOrUndefined(acc)
  THEN Throw(h, "TypeError")
  ELSE IF idx = Len(keys)
  THEN LET w == Assign(h, acc, keys[idx], GetV(h, obj, key))
       IN IF w.st # "ok" THEN w ELSE Ok(w.h, GetV(w.h, acc, keys[idx]))
  ELSE IF Truthy(GetV(h, acc, keys[idx]))
  THEN LET w == Assign(h, acc, keys[idx], GetV(h, acc, keys[idx]))
       IN IF w.st # "ok"
          THEN w
          ELSE unflattenReduce(w.h, GetV(w.h, acc, keys[idx]), keys, idx + 1, obj, key)
  ELSE LET w == Assign(Append(h, NewObj(FALSE)), acc, keys[idx], Ref(Len(h) + 1))
       IN IF w.st # "ok"
          THEN w
          ELSE unflattenReduce(w.h, GetV(w.h, acc, keys[idx]), keys, idx + 1, obj, key)

\* The for-in loop over the keys flatKeys of obj.
unflattenKeys(h, obj, result, flatKeys, i) ==
  IF i > Len(flatKeys)
  THEN Ok(h, Ref(result))
  ELSE LET r == unflattenReduce(h, Ref(result), Split(flatKeys[i]), 1, obj, flatKeys[i])
       IN IF r.st # "ok" THEN r ELSE unflattenKeys(r.h, obj, result, flatKeys, i + 1)

transformToUnflattenObject(h, obj) ==
  IF ~isObject(obj)
  THEN Ok(h, Undefined)
  ELSE unflattenKeys(Append(h, NewObj(FALSE)), obj, Len(h) + 1, ForInKeys(h, obj), 1)

(***************************************************************************)
(* mergeTwoObjects                                                         *)
(***************************************************************************)
RECURSIVE merge(_, _, _, _)
RECURSIVE mergeKeys1(_, _, _, _, _, _, _)
RECURSIVE mergeKeys2(_, _, _, _, _, _)

\* [...a, ...b]: a new array of the elements of a followed by those of b.
Concat(h, a, b) ==
  LET es == [i \in 1..Len(h[a.n].props) |-> h[a.n].props[i].v]
            \o [i \in 1..Len(h[b.n].props) |-> h[b.n].props[i].v]
      o == [arr |-> TRUE, frozen |-> FALSE,
            props |-> [i \in 1..Len(es) |-> [k |-> IndexKey(i - 1), v |-> es[i]]]]
  IN Ok(Append(h, o), Ref(Len(h) + 1))

\* The second loop: the keys of obj2 that obj1 does not own.
mergeKeys2(h, obj1, obj2, mergedObj, keys, i) ==
  IF i > Len(keys)
  THEN Ok(h, Ref(mergedObj))
  ELSE IF NullOrUndefined(obj1)
  THEN Throw(h, "TypeError")
  ELSE IF ~HasOwnProperty(h, obj1, keys[i])
  THEN mergeKeys2(Put(h, mergedObj, keys[i], GetV(h, obj2, keys[i])),
                  obj1, obj2, mergedObj, keys, i + 1)
  ELSE mergeKeys2(h, obj1, obj2, mergedObj, keys, i + 1)

\* The first loop: the keys of obj1.
mergeKeys1(h, obj1, obj2, mergedObj, keys, i, d) ==
  IF i > Len(keys)
  THEN mergeKeys2(h, obj1, obj2, mergedObj, ForInKeys(h, obj2), 1)
  ELSE
    LET key == keys[i]
        v1 == GetV(h, obj1, key)
        next(h2) == mergeKeys1(h2, obj1, obj2, mergedObj, keys, i + 1, d)
    IN IF NullOrUndefined(obj2)
       THEN Throw(h, "TypeError")
       ELSE IF HasOwnProperty(h, obj2, key)
       THEN IF IsArray(h, v1) /\ IsArray(h, GetV(h, obj2, key))
            THEN next(Put(Concat(h, v1, GetV(h, obj2, key)).h, mergedObj, key,
                          Concat(h, v1, GetV(h, obj2, key)).v))
            ELSE IF TypeOf(v1) = "object" /\ v1 # Null
            THEN LET r == merge(h, v1, GetV(h, obj2, key), d + 1)
                 IN IF r.st # "ok" THEN r ELSE next(Put(r.h, mergedObj, key, r.v))
            ELSE next(Put(h, mergedObj, key, GetV(h, obj2, key)))
       ELSE next(Put(h, mergedObj, key, v1))

merge(h, obj1, obj2, d) ==
  IF d > StackLimit
  THEN Throw(h, "RangeError")
  ELSE mergeKeys1(Append(h, NewObj(FALSE)), obj1, obj2, Len(h) + 1,
                  ForInKeys(h, obj1), 1, d)

mergeTwoObjects(h, obj1, obj2) == merge(h, obj1, obj2, 1)

(***************************************************************************)
(* deepFreezeObject                                                        *)
(***************************************************************************)
RECURSIVE deepFreeze(_, _, _)
RECURSIVE deepFreezeProps(_, _, _, _)

\* Mutant: the values of the container are left as they are.
deepFreezeProps_Shallow(h, obj, i, d) == Ok(h, obj)

deepFreezeProps(h, obj, i, d) ==
  IF i > Len(h[obj.n].props)
  THEN Ok(h, obj)
  ELSE LET value == h[obj.n].props[i].v
       IN IF isObject(value)
          THEN LET r == deepFreeze(h, value, d + 1)
               IN IF r.st # "ok" THEN r ELSE deepFreezeProps(r.h, obj, i + 1, d)
          ELSE deepFreezeProps(h, obj, i + 1, d)

deepFreeze(h, obj, d) ==
  IF d > StackLimit
  THEN Throw(h, "RangeError")
  ELSE IF ~isObject(obj)
  THEN Ok(h, Undefined)
  ELSE deepFreezeProps([h EXCEPT ![obj.n].frozen = TRUE], obj, 1, d)

deepFreezeObject(h, obj) == deepFreeze(h, obj, 1)

(***************************************************************************)
(* isPlainObject, isObjectEmpty                                            *)
(***************************************************************************)
\* A map is built by a literal and has Object.prototype as its prototype; an
\* array has Array.prototype.
isPlainObject(h, obj) ==
  IF ~isObject(obj)
  THEN Ok(h, Bool(FALSE))
  ELSE Ok(h, Bool(~h[obj.n].arr))

isObjectEmpty(h, obj) ==
  IF ~isObject(obj)
  THEN Ok(h, Bool(FALSE))
  ELSE LET ks == ForInKeys(h, obj)
       IN Ok(h, Bool(\A i \in 1..Len(ks) : ~HasOwnProperty(h, obj, ks[i])))

(***************************************************************************)
(* isPropertyDefined                                                       *)
(***************************************************************************)
RECURSIVE isPropertyDefinedFrom(_, _, _, _)

\* Mutant: a key holding undefined counts as missing.
isPropertyDefinedFrom_UndefinedIsMissing(h, current, keys, i) ==
  IF i > Len(keys)
  THEN TRUE
  ELSE IF Truthy(current) /\ GetV(h, current, keys[i]) # Undefined
  THEN isPropertyDefinedFrom(h, GetV(h, current, keys[i]), keys, i + 1)
  ELSE FALSE

\* The loop over the segments keys[i..] of the path, current being the value
\* reached so far.
isPropertyDefinedFrom(h, current, keys, i) ==
  IF i > Len(keys)
  THEN TRUE
  ELSE IF Truthy(current) /\ HasOwnProperty(h, current, keys[i])
  THEN isPropertyDefinedFrom(h, GetV(h, current, keys[i]), keys, i + 1)
  ELSE FALSE

isPropertyDefined(h, obj, prop) ==
  IF ~isObject(obj)
  THEN Ok(h, Undefined)
  ELSE Ok(h, Bool(isPropertyDefinedFrom(h, obj, Split(prop.s), 1)))

(***************************************************************************)
(* removeEmptyObjects                                                      *)
(***************************************************************************)
RECURSIVE removeEmpty(_, _, _)
RECURSIVE removeEmptyMap(_, _, _, _, _)
RECURSIVE removeEmptyProps(_, _, _, _, _)

\* array.filter((item) => item !== undefined): a new array.
FilterDefined(h, arr) ==
  LET es == SelectSeq([i \in 1..Len(h[arr].props) |-> h[arr].props[i].v],
                      LAMBDA e : e # Undefined)
      o == [arr |-> TRUE, frozen |-> FALSE,
            props |-> [i \in 1..Len(es) |-> [k |-> IndexKey(i - 1), v |-> es[i]]]]
  IN Ok(Append(h, o), Ref(Len(h) + 1))

\* obj.map(removeEmptyObjects): the results, element by element, in array out.
removeEmptyMap(h, in, out, i, d) ==
  IF i > Len(h[in].props)
  THEN Ok(h, Ref(out))
  ELSE LET r == removeEmpty(h, h[in].props[i].v, d + 1)
       IN IF r.st # "ok"
          THEN r
          ELSE removeEmptyMap(Put(r.h, out, IndexKey(i - 1), r.v), in, out, i + 1, d)

removeEmptyProps(h, in, newObj, i, d) ==
  IF i > Len(h[in].props)
  THEN Ok(h, Ref(newObj))
  ELSE LET p == h[in].props[i]
           r == removeEmpty(h, p.v, d + 1)
       IN IF r.st # "ok"
          THEN r
          ELSE IF r.v # Undefined
          THEN removeEmptyProps(Put(r.h, newObj, p.k, r.v), in, newObj, i + 1, d)
          ELSE removeEmptyProps(r.h, in, newObj, i + 1, d)

\* Mutant: a map left without keys is returned as an empty map.
removeEmpty_EmptyMapKept(h, obj, d) ==
  IF d > StackLimit
  THEN Throw(h, "RangeError")
  ELSE IF TypeOf(obj) # "object" \/ obj = Null
  THEN Ok(h, obj)
  ELSE IF IsArray(h, obj)
  THEN LET m == removeEmptyMap(Append(h, NewObj(TRUE)), obj.n, Len(h) + 1, 1, d)
       IN IF m.st # "ok" THEN m ELSE FilterDefined(m.h, m.v.n)
  ELSE LET r == removeEmptyProps(Append(h, NewObj(FALSE)), obj.n, Len(h) + 1, 1, d)
       IN IF r.st # "ok"
          THEN r
          ELSE r

\* Mutant: an array left without elements becomes undefined, as a map does.
removeEmpty_EmptyArrayPruned(h, obj, d) ==
  IF d > StackLimit
  THEN Throw(h, "RangeError")
  ELSE IF TypeOf(obj) # "object" \/ obj = Null
  THEN Ok(h, obj)
  ELSE IF IsArray(h, obj)
  THEN LET m == removeEmptyMap(Append(h, NewObj(TRUE)), obj.n, Len(h) + 1, 1, d)
       IN IF m.st # "ok"
          THEN m
          ELSE IF FilterDefined(m.h, m.v.n).h[FilterDefined(m.h, m.v.n).v.n].props = <<>>
          THEN Ok(m.h, Undefined)
          ELSE FilterDefined(m.h, m.v.n)
  ELSE LET r == removeEmptyProps(Append(h, NewObj(FALSE)), obj.n, Len(h) + 1, 1, d)
       IN IF r.st # "ok"
          THEN r
          ELSE IF Len(ObjectKeys(r.h, r.v)) > 0 THEN r ELSE Ok(r.h, Undefined)

removeEmpty(h, obj, d) ==
  IF d > StackLimit
  THEN Throw(h, "RangeError")
  ELSE IF TypeOf(obj) # "object" \/ obj = Null
  THEN Ok(h, obj)
  ELSE IF IsArray(h, obj)
  THEN LET m == removeEmptyMap(Append(h, NewObj(TRUE)), obj.n, Len(h) + 1, 1, d)
       IN IF m.st # "ok" THEN m ELSE FilterDefined(m.h, m.v.n)
  ELSE LET r == removeEmptyProps(Append(h, NewObj(FALSE)), obj.n, Len(h) + 1, 1, d)
       IN IF r.st # "ok"
          THEN r
          ELSE IF Len(ObjectKeys(r.h, r.v)) > 0 THEN r ELSE Ok(r.h, Undefined)

removeEmptyObjects(h, obj) == removeEmpty(h, obj, 1)

(***************************************************************************)
(* removeKeysFromObject                                                    *)
(***************************************************************************)
RECURSIVE removeKeys(_, _, _, _)
RECURSIVE removeKeysMap(_, _, _, _, _, _)
RECURSIVE removeKeysProps(_, _, _, _, _, _)

\* keys.includes(key), keys an array and key a property key.
Includes(h, keys, key) ==
  \E i \in 1..Len(h[keys.n].props) : h[keys.n].props[i].v = Str(key)

\* obj.map((item) => removeKeysFromObject(item, keysToRemove))
\* Mutant: the elements of an array are carried over as they are.
removeKeysMap_ElementsKept(h, in, out, keysToRemove, i, d) ==
  IF i > Len(h[in].props)
  THEN Ok(h, Ref(out))
  ELSE removeKeysMap(Put(h, out, IndexKey(i - 1), h[in].props[i].v),
                     in, out, keysToRemove, i + 1, d)

removeKeysMap(h, in, out, keysToRemove, i, d) ==
  IF i > Len(h[in].props)
  THEN Ok(h, Ref(out))
  ELSE LET r == removeKeys(h, h[in].props[i].v, keysToRemove, d + 1)
       IN IF r.st # "ok"
          THEN r
          ELSE removeKeysMap(Put(r.h, out, IndexKey(i - 1), r.v),
                             in, out, keysToRemove, i + 1, d)

removeKeysProps(h, in, newObj, keysToRemove, i, d) ==
  IF i > Len(h[in].props)
  THEN Ok(h, Ref(newObj))
  ELSE LET p == h[in].props[i]
       IN IF Includes(h, keysToRemove, p.k)
          THEN removeKeysProps(h, in, newObj, keysToRemove, i + 1, d)
          ELSE LET r == removeKeys(h, p.v, keysToRemove, d + 1)
               IN IF r.st # "ok"
                  THEN r
                  ELSE IF r.v # Undefined
                  THEN removeKeysProps(Put(r.h, newObj, p.k, r.v),
                                       in, newObj, keysToRemove, i + 1, d)
                  ELSE removeKeysProps(r.h, in, newObj, keysToRemove, i + 1, d)

removeKeys(h, obj, keysToRemove, d) ==
  IF d > StackLimit
  THEN Throw(h, "RangeError")
  ELSE IF TypeOf(obj) # "object" \/ obj = Null
  THEN Ok(h, obj)
  ELSE IF IsArray(h, obj)
  THEN removeKeysMap(Append(h, NewObj(TRUE)), obj.n, Len(h) + 1, keysToRemove, 1, d)
  ELSE removeKeysProps(Append(h, NewObj(FALSE)), obj.n, Len(h) + 1, keysToRemove, 1, d)

removeKeysFromObject(h, obj, keysToRemove) == removeKeys(h, obj, keysToRemove, 1)

(***************************************************************************)
(* omitKeysOfObject                                                        *)
(***************************************************************************)
RECURSIVE omitKeysEach(_, _, _, _)

\* delete o[k] on a container that is not frozen.
Delete(h, a, k) ==
  [h EXCEPT ![a].props = SelectSeq(h[a].props, LAMBDA p : p.k # k)]

\* keys.forEach((key) => { delete result[key]; }), the keys being strings.
omitKeysEach(h, result, keys, i) ==
  IF i > Len(h[keys.n].props)
  THEN Ok(h, Ref(result))
  ELSE omitKeysEach(Delete(h, result, h[keys.n].props[i].v.s), result, keys, i + 1)

omitKeysOfObject(h, obj, keys) ==
  IF TypeOf(obj) # "object" \/ obj = Null
  THEN Ok(h, Undefined)
  ELSE omitKeysEach(Spread(h, obj).h, Spread(h, obj).v.n, keys, 1)

(***************************************************************************)
(* getNestedValueOfObject                                                  *)
(***************************************************************************)
RECURSIVE getNestedReduce(_, _, _, _)

\* parts.reduce((acc, part) => acc && acc[part], obj) from segment i on.
getNestedReduce(h, acc, parts, i) ==
  IF i > Len(parts)
  THEN acc
  ELSE getNestedReduce(h, IF Truthy(acc) THEN GetV(h, acc, parts[i]) ELSE acc,
                       parts, i + 1)

getNestedValueOfObject(h, obj, path) ==
  IF ~isObject(obj)
  THEN Ok(h, Undefined)
  ELSE Ok(h, getNestedReduce(h, obj, Split(path.s), 1))

(***************************************************************************)
(* mapValuesObject                                                         *)
(***************************************************************************)
RECURSIVE mapValuesKeys(_, _, _, _, _)

\* The callback (value) => typeof value.
TypeOfValue(v) ==
  CASE TypeOf(v) = "object" -> Str(<<"o", "b", "j", "e", "c", "t">>)
    [] TypeOf(v) = "undefined" -> Str(<<"u", "n", "d", "e", "f", "i", "n", "e", "d">>)
    [] TypeOf(v) = "number" -> Str(<<"n", "u", "m", "b", "e", "r">>)
    [] TypeOf(v) = "boolean" -> Str(<<"b", "o", "o", "l", "e", "a", "n">>)
    [] TypeOf(v) = "string" -> Str(<<"s", "t", "r", "i", "n", "g">>)
    [] OTHER -> Str(<<"f", "u", "n", "c", "t", "i", "o", "n">>)

\* The for-in loop: result[key] = fn(obj[key]).
mapValuesKeys(h, obj, result, keys, i) ==
  IF i > Len(keys)
  THEN Ok(h, Ref(result))
  ELSE mapValuesKeys(Put(h, result, keys[i], TypeOfValue(GetV(h, obj, keys[i]))),
                     obj, result, keys, i + 1)

mapValuesObject(h, obj) ==
  IF ~isObject(obj)
  THEN Ok(h, Undefined)
  ELSE mapValuesKeys(Append(h, NewObj(FALSE)), obj, Len(h) + 1, ForInKeys(h, obj), 1)

(***************************************************************************)
(* The client program: building the heap, then calling the library.        *)
(***************************************************************************)
Call(op, args, r) ==
  /\ heap' = r.h
  /\ calls' = Append(calls, [op |-> op, args |-> args, v |-> r.v, st |-> r.st,
                             pre |-> heap])

Building == calls = <<>>

Last == calls[Len(calls)]

Called(op) == calls # <<>> /\ Last.op = op

Refs == {Ref(a) : a \in 1..Len(heap)}

GraphKeys == <<<<"a">>, <<"b">>>>
GraphLeaves == {Num(1)}

NewContainer(isArr, max) ==
  /\ Building
  /\ Len(heap) < max
  /\ heap' = Append(heap, NewObj(isArr))
  /\ UNCHANGED calls

GraphNewMap == NewContainer(FALSE, MaxGraphObjs)

SetProperty(keys, vals) ==
  /\ Building
  /\ \E a \in 1..Len(heap), k \in keys, v \in vals :
       /\ ~heap[a].arr
       /\ KeyIdx(heap[a], k) = 0
       /\ heap' = Put(heap, a, k, v)
  /\ UNCHANGED calls

PushElement(vals, maxLen) ==
  /\ Building
  /\ \E a \in 1..Len(heap), v \in vals :
       /\ heap[a].arr
       /\ Len(heap[a].props) < maxLen
       /\ heap' = Put(heap, a, IndexKey(Len(heap[a].props)), v)
  /\ UNCHANGED calls

\* Keys are added in the order of keySeq (a map may skip keys).
SetPropertyInOrder(keySeq, vals) ==
  /\ Building
  /\ \E a \in 1..Len(heap), j \in 1..Len(keySeq), v \in vals :
       /\ ~heap[a].arr
       /\ \A i \in j..Len(keySeq) : KeyIdx(heap[a], keySeq[i]) = 0
       /\ heap' = Put(heap, a, keySeq[j], v)
  /\ UNCHANGED calls

GraphSetProperty == SetPropertyInOrder(GraphKeys, GraphLeaves \cup Refs)

GraphNewArray == NewContainer(TRUE, MaxGraphObjs)

GraphPush == PushElement(GraphLeaves \cup Refs, MaxGraphArrLen)

CallCloneObject ==
  /\ Building
  /\ \E obj \in Refs : Call("cloneObject", <<obj>>, cloneObject(heap, obj))

CallDeepFreezeObject ==
  /\ Building
  /\ \E obj \in Refs : Call("deepFreezeObject", <<obj>>, deepFreezeObject(heap, obj))

CallGetAllObjectKeys ==
  /\ Building
  /\ \E obj \in Refs : Call("getAllObjectKeys", <<obj>>, getAllObjectKeys(heap, obj))

CallGetObjectDiffIterative ==
  /\ Building
  /\ \E objA \in Refs, objB \in Refs :
       Call("getObjectDiffIterative", <<objA, objB>>,
            getObjectDiffIterative(heap, objA, objB))

CallIsObjectDeepEqualOnClone ==
  /\ Len(calls) = 1
  /\ Last.op = "cloneObject"
  /\ Last.st = "ok"
  /\ Call("isObjectDeepEqual", <<Last.v, Last.args[1]>>,
          isObjectDeepEqual(heap, Last.v, Last.args[1]))

CallTransformToFlattenObject ==
  /\ Building
  /\ \E obj \in Refs :
       Call("transformToFlattenObject", <<obj>>, transformToFlattenObject(heap, obj))

CallTransformToUnflattenObjectOnFlat ==
  /\ Len(calls) = 1
  /\ Last.op = "transformToFlattenObject"
  /\ Last.st = "ok"
  /\ Call("transformToUnflattenObject", <<Last.v>>, transformToUnflattenObject(heap, Last.v))

CallRemoveUndefinedKeys ==
  /\ Building
  /\ \E obj \in Refs :
       Call("removeUndefinedKeys", <<obj>>, removeUndefinedKeys(heap, obj))

CallRemoveUndefinedKeysAgain ==
  /\ Len(calls) = 1
  /\ Last.op = "removeUndefinedKeys"
  /\ Last.st = "ok"
  /\ Call("removeUndefinedKeys", <<Last.v>>, removeUndefinedKeys(heap, Last.v))

(***************************************************************************)
(* Building a tree: every container but the root is created as the value   *)
(* of one property of an existing container, so nothing is shared and      *)
(* nothing is cyclic.                                                      *)
(***************************************************************************)
TreeKeys == <<<<"a">>, <<"b">>>>
TreeLeaves == {Undefined, Null, Num(1), NaN, Fn(1)}

\* The slots of container a that a builder may fill next.
FreeSlots(a, keySeq, maxLen) ==
  IF heap[a].arr
  THEN IF Len(heap[a].props) < maxLen THEN {IndexKey(Len(heap[a].props))} ELSE {}
  ELSE {keySeq[j] : j \in {l \in 1..Len(keySeq) :
                            \A i \in l..Len(keySeq) : KeyIdx(heap[a], keySeq[i]) = 0}}

TreeNewRoot ==
  /\ Building
  /\ heap = <<>>
  /\ \E isArr \in BOOLEAN : heap' = <<NewObj(isArr)>>
  /\ UNCHANGED calls

TreeAddChild ==
  /\ Building
  /\ Len(heap) \in 1..(MaxTreeObjs - 1)
  /\ \E a \in 1..Len(heap), isArr \in BOOLEAN :
       \E k \in FreeSlots(a, TreeKeys, MaxTreeArrLen) :
         heap' = Put(Append(heap, NewObj(isArr)), a, k, Ref(Len(heap) + 1))
  /\ UNCHANGED calls

TreeAddLeaf ==
  /\ Building
  /\ \E a \in 1..Len(heap), v \in TreeLeaves :
       \E k \in FreeSlots(a, TreeKeys, MaxTreeArrLen) :
         heap' = Put(heap, a, k, v)
  /\ UNCHANGED calls

(***************************************************************************)
(* Building a pair of map-only trees, before (container 1) and after       *)
(* (container 2), then diffing them and merging the diff into before.      *)
(***************************************************************************)
PairKeys == <<<<"a">>, <<"b">>>>
PairLeaves == {Num(1), Num(2), Null}
Before == Ref(1)
After == Ref(2)

PairNewRoots ==
  /\ Building
  /\ heap = <<>>
  /\ heap' = <<NewObj(FALSE), NewObj(FALSE)>>
  /\ UNCHANGED calls

PairAddChild ==
  /\ Building
  /\ Len(heap) \in 2..(MaxPairObjs - 1)
  /\ \E a \in 1..Len(heap) :
       \E k \in FreeSlots(a, PairKeys, 0) :
         heap' = Put(Append(heap, NewObj(FALSE)), a, k, Ref(Len(heap) + 1))
  /\ UNCHANGED calls

PairAddLeaf ==
  /\ Building
  /\ \E a \in 1..Len(heap), v \in PairLeaves :
       \E k \in FreeSlots(a, PairKeys, 0) :
         heap' = Put(heap, a, k, v)
  /\ UNCHANGED calls

CallDiffBeforeAfter ==
  /\ Building
  /\ Len(heap) >= 2
  /\ Call("getObjectDiffIterative", <<Before, After>>,
          getObjectDiffIterative(heap, Before, After))

CallMergeBeforeWithDiff ==
  /\ Len(calls) = 1
  /\ Last.op = "getObjectDiffIterative"
  /\ Last.st = "ok"
  /\ Call("mergeTwoObjects", <<Before, Last.v>>, mergeTwoObjects(heap, Before, Last.v))

(***************************************************************************)
(* Calls on a tree whose keys include a dotted one: every operation that   *)
(* has no business writing to its arguments.  The key lists of             *)
(* removeKeysFromObject and omitKeysOfObject are arrays the client creates *)
(* for the call.                                                           *)
(***************************************************************************)
MaxFrameObjs == 2
MaxFrameArrLen == 1

FrameKeys == <<<<"a">>, <<"a", ".", "b">>>>
FrameLeaves == {Num(1), Undefined}
FramePaths == {Str(<<"a">>), Str(<<"a", ".", "b">>)}
FrameKeyLists == {<<>>, <<Str(<<"a">>)>>}

CallWith(pre, op, args, r) ==
  /\ heap' = r.h
  /\ calls' = Append(calls, [op |-> op, args |-> args, v |-> r.v, st |-> r.st,
                             pre |-> pre])

\* heap with a new array of the elements es at its end.
WithArray(es) ==
  Append(heap, [arr |-> TRUE, frozen |-> FALSE,
                props |-> [i \in 1..Len(es) |-> [k |-> IndexKey(i - 1), v |-> es[i]]]])

FrameNewRoot ==
  /\ Building
  /\ heap = <<>>
  /\ \E isArr \in BOOLEAN : heap' = <<NewObj(isArr)>>
  /\ UNCHANGED calls

FrameAddChild ==
  /\ Building
  /\ Len(heap) \in 1..(MaxFrameObjs - 1)
  /\ \E a \in 1..Len(heap), isArr \in BOOLEAN :
       \E k \in FreeSlots(a, FrameKeys, MaxFrameArrLen) :
         heap' = Put(Append(heap, NewObj(isArr)), a, k, Ref(Len(heap) + 1))
  /\ UNCHANGED calls

FrameAddLeaf ==
  /\ Building
  /\ \E a \in 1..Len(heap), v \in FrameLeaves :
       \E k \in FreeSlots(a, FrameKeys, MaxFrameArrLen) :
         heap' = Put(heap, a, k, v)
  /\ UNCHANGED calls

CallRemoveEmptyObjects ==
  /\ Building
  /\ \E obj \in Refs :
       Call("removeEmptyObjects", <<obj>>, removeEmptyObjects(heap, obj))

CallRemoveKeysFromObject ==
  /\ Building
  /\ \E obj \in Refs, es \in FrameKeyLists :
       LET keysToRemove == Ref(Len(heap) + 1)
       IN CallWith(WithArray(es), "removeKeysFromObject", <<obj, keysToRemove>>,
                   removeKeysFromObject(WithArray(es), obj, keysToRemove))

CallOmitKeysOfObject ==
  /\ Building
  /\ \E obj \in Refs, es \in FrameKeyLists :
       LET keys == Ref(Len(heap) + 1)
       IN CallWith(WithArray(es), "omitKeysOfObject", <<obj, keys>>,
                   omitKeysOfObject(WithArray(es), obj, keys))

CallMergeTwoObjects ==
  /\ Building
  /\ \E obj1 \in Refs, obj2 \in Refs :
       Call("mergeTwoObjects", <<obj1, obj2>>, mergeTwoObjects(heap, obj1, obj2))

CallTransformToUnflattenObject ==
  /\ Building
  /\ \E obj \in Refs :
       Call("transformToUnflattenObject", <<obj>>, transformToUnflattenObject(heap, obj))

CallGetNestedValueOfObject ==
  /\ Building
  /\ \E obj \in Refs, path \in FramePaths :
       Call("getNestedValueOfObject", <<obj, path>>,
            getNestedValueOfObject(heap, obj, path))

CallIsPropertyDefined ==
  /\ Building
  /\ \E obj \in Refs, prop \in FramePaths :
       Call("isPropertyDefined", <<obj, prop>>, isPropertyDefined(heap, obj, prop))

\* fn is the callback TypeOfValue.
CallMapValuesObject ==
  /\ Building
  /\ \E obj \in Refs : Call("mapValuesObject", <<obj>>, mapValuesObject(heap, obj))

(***************************************************************************)
(* Calls whose root argument is no container: a number, a string, a        *)
(* boolean, null or undefined.  The two-argument comparisons and the merge *)
(* take such a value on at least one side.                                 *)
(***************************************************************************)
Roots == {Num(0), Num(1), Str(<<>>), Str(<<"a">>), Bool(FALSE), Bool(TRUE),
          Null, Undefined}

RootPairs ==
  {p \in (Roots \cup Refs) \X (Roots \cup Refs) : p[1] \in Roots \/ p[2] \in Roots}

RootCallIsObject ==
  /\ Building
  /\ \E obj \in Roots : Call("isObject", <<obj>>, Ok(heap, Bool(isObject(obj))))

RootCallIsPlainObject ==
  /\ Building
  /\ \E obj \in Roots : Call("isPlainObject", <<obj>>, isPlainObject(heap, obj))

RootCallIsObjectEmpty ==
  /\ Building
  /\ \E obj \in Roots : Call("isObjectEmpty", <<obj>>, isObjectEmpty(heap, obj))

RootCallIsObjectDeepEqual ==
  /\ Building
  /\ \E p \in RootPairs :
       Call("isObjectDeepEqual", <<p[1], p[2]>>, isObjectDeepEqual(heap, p[1], p[2]))

RootCallIsPropertyDefined ==
  /\ Building
  /\ \E obj \in Roots, prop \in FramePaths :
       Call("isPropertyDefined", <<obj, prop>>, isPropertyDefined(heap, obj, prop))

RootCallCloneObject ==
  /\ Building
  /\ \E obj \in Roots : Call("cloneObject", <<obj>>, cloneObject(heap, obj))

RootCallGetObjectDiffIterative ==
  /\ Building
  /\ \E p \in RootPairs :
       Call("getObjectDiffIterative", <<p[1], p[2]>>,
            getObjectDiffIterative(heap, p[1], p[2]))

RootCallGetAllObjectKeys ==
  /\ Building
  /\ \E obj \in Roots : Call("getAllObjectKeys", <<obj>>, getAllObjectKeys(heap, obj))

RootCallRemoveEmptyObjects ==
  /\ Building
  /\ \E obj \in Roots :
       Call("removeEmptyObjects", <<obj>>, removeEmptyObjects(heap, obj))

RootCallRemoveUndefinedKeys ==
  /\ Building
  /\ \E obj \in Roots :
       Call("removeUndefinedKeys", <<obj>>, removeUndefinedKeys(heap, obj))

RootCallRemoveKeysFromObject ==
  /\ Building
  /\ \E obj \in Roots, es \in FrameKeyLists :
       LET keysToRemove == Ref(Len(heap) + 1)
       IN CallWith(WithArray(es), "removeKeysFromObject", <<obj, keysToRemove>>,
                   removeKeysFromObject(WithArray(es), obj, keysToRemove))

RootCallMergeTwoObjects ==
  /\ Building
  /\ \E p \in RootPairs :
       Call("mergeTwoObjects", <<p[1], p[2]>>, mergeTwoObjects(heap, p[1], p[2]))

RootCallOmitKeysOfObject ==
  /\ Building
  /\ \E obj \in Roots, es \in FrameKeyLists :
       LET keys == Ref(Len(heap) + 1)
       IN CallWith(WithArray(es), "omitKeysOfObject", <<obj, keys>>,
                   omitKeysOfObject(WithArray(es), obj, keys))

RootCallTransformToFlattenObject ==
  /\ Building
  /\ \E obj \in Roots :
       Call("transformToFlattenObject", <<obj>>, transformToFlattenObject(heap, obj))

RootCallTransformToUnflattenObject ==
  /\ Building
  /\ \E obj \in Roots :
       Call("transformToUnflattenObject", <<obj>>, transformToUnflattenObject(heap, obj))

RootCallGetNestedValueOfObject ==
  /\ Building
  /\ \E obj \in Roots, path \in FramePaths :
       Call("getNestedValueOfObject", <<obj, path>>,
            getNestedValueOfObject(heap, obj, path))

RootCallDeepFreezeObject ==
  /\ Building
  /\ \E obj \in Roots : Call("deepFreezeObject", <<obj>>, deepFreezeObject(heap, obj))

RootCallMapValuesObject ==
  /\ Building
  /\ \E obj \in Roots : Call("mapValuesObject", <<obj>>, mapValuesObject(heap, obj))

(***************************************************************************)
(* Building two map roots, container 1 and container 2, each the root of   *)
(* its own tree of maps and arrays, for the operations on two arguments.   *)
(***************************************************************************)
AddChild(keySeq, kinds, maxObjs, maxArrLen) ==
  /\ Building
  /\ Len(heap) \in 2..(maxObjs - 1)
  /\ \E a \in 1..Len(heap), isArr \in kinds :
       \E k \in FreeSlots(a, keySeq, maxArrLen) :
         heap' = Put(Append(heap, NewObj(isArr)), a, k, Ref(Len(heap) + 1))
  /\ UNCHANGED calls

AddLeaf(keySeq, leaves, maxArrLen) ==
  /\ Building
  /\ \E a \in 1..Len(heap), v \in leaves :
       \E k \in FreeSlots(a, keySeq, maxArrLen) :
         heap' = Put(heap, a, k, v)
  /\ UNCHANGED calls

MaxEqualObjs == 3
MaxEqualArrLen == 1

EqualKeys == <<<<"a">>, <<"b">>>>
EqualLeaves == {Undefined, Num(1)}

EqualAddChild == AddChild(EqualKeys, BOOLEAN, MaxEqualObjs, MaxEqualArrLen)

EqualAddLeaf == AddLeaf(EqualKeys, EqualLeaves, MaxEqualArrLen)

CallIsObjectDeepEqual ==
  /\ Building
  /\ Len(heap) >= 2
  /\ Call("isObjectDeepEqual", <<Before, After>>,
          isObjectDeepEqual(heap, Before, After))

DiffKeys == <<<<"a">>, <<"b">>, <<"c">>>>
ScalarLeaves == {Undefined, Null, Num(1), Num(2), NaN}

ScalarAddLeaf == AddLeaf(DiffKeys, ScalarLeaves, 0)

CallDiffOnClone ==
  /\ Len(calls) = 1
  /\ Last.op = "cloneObject"
  /\ Last.st = "ok"
  /\ Call("getObjectDiffIterative", <<Last.args[1], Last.v>>,
          getObjectDiffIterative(heap, Last.args[1], Last.v))

MaxKindObjs == 4
MaxKindArrLen == 1

KindKeys == <<<<"a">>, <<"b">>>>
KindLeaves == {Num(1), Null}

KindAddChild == AddChild(KindKeys, BOOLEAN, MaxKindObjs, MaxKindArrLen)

KindAddLeaf == AddLeaf(KindKeys, KindLeaves, MaxKindArrLen)

MaxMergeObjs == 4
MaxMergeArrLen == 1

MergeKeys == <<<<"a">>, <<"b">>>>
MergeLeaves == {Num(1), Num(2), Null}

MergeAddChild == AddChild(MergeKeys, BOOLEAN, MaxMergeObjs, MaxMergeArrLen)

MergeAddLeaf == AddLeaf(MergeKeys, MergeLeaves, MaxMergeArrLen)

CallMergeBeforeAfter ==
  /\ Building
  /\ Len(heap) >= 2
  /\ Call("mergeTwoObjects", <<Before, After>>, mergeTwoObjects(heap, Before, After))

MaxPruneObjs == 3
MaxPruneArrLen == 1

PruneKeys == <<<<"a">>, <<"b">>>>
PruneLeaves == {Undefined, Null, Num(1)}

PruneNewRoot ==
  /\ Building
  /\ heap = <<>>
  /\ \E isArr \in BOOLEAN : heap' = <<NewObj(isArr)>>
  /\ UNCHANGED calls

PruneAddChild ==
  /\ Building
  /\ Len(heap) \in 1..(MaxPruneObjs - 1)
  /\ \E a \in 1..Len(heap), isArr \in BOOLEAN :
       \E k \in FreeSlots(a, PruneKeys, MaxPruneArrLen) :
         heap' = Put(Append(heap, NewObj(isArr)), a, k, Ref(Len(heap) + 1))
  /\ UNCHANGED calls

PruneAddLeaf == AddLeaf(PruneKeys, PruneLeaves, MaxPruneArrLen)

\* The call on the root of the tree, container 1.
CallRemoveEmptyObjectsOnRoot ==
  /\ Building
  /\ heap # <<>>
  /\ Call("removeEmptyObjects", <<Ref(1)>>, removeEmptyObjects(heap, Ref(1)))

MaxNamedObjs == 3
MaxNamedArrLen == 1

NamedKeys == <<<<"a">>, <<"b">>>>
NamedLeaves == {Undefined, Null, Num(1)}
NamedLists == {<<Str(<<"a">>)>>, <<Str(<<"b">>), Str(<<"a">>)>>, <<Str(<<"c">>)>>}

NamedAddChild ==
  /\ Building
  /\ Len(heap) \in 1..(MaxNamedObjs - 1)
  /\ \E a \in 1..Len(heap), isArr \in BOOLEAN :
       \E k \in FreeSlots(a, NamedKeys, MaxNamedArrLen) :
         heap' = Put(Append(heap, NewObj(isArr)), a, k, Ref(Len(heap) + 1))
  /\ UNCHANGED calls

NamedAddLeaf == AddLeaf(NamedKeys, NamedLeaves, MaxNamedArrLen)

\* The call on the root of the tree, container 1, with a new array of names.
CallRemoveKeysFromObjectOnRoot ==
  /\ Building
  /\ heap # <<>>
  /\ \E es \in NamedLists :
       LET keysToRemove == Ref(Len(heap) + 1)
       IN CallWith(WithArray(es), "removeKeysFromObject", <<Ref(1), keysToRemove>>,
                   removeKeysFromObject(WithArray(es), Ref(1), keysToRemove))


MaxFlatObjs == 3
MaxFlatArrLen == 1

\* The empty string is a key like any other.
FlatKeys == <<<<>>, <<"a">>>>
FlatLeaves == {Undefined, Null, Num(1)}

FlatAddChild ==
  /\ Building
  /\ Len(heap) \in 1..(MaxFlatObjs - 1)
  /\ \E a \in 1..Len(heap), isArr \in BOOLEAN :
       \E k \in FreeSlots(a, FlatKeys, MaxFlatArrLen) :
         heap' = Put(Append(heap, NewObj(isArr)), a, k, Ref(Len(heap) + 1))
  /\ UNCHANGED calls

FlatAddLeaf == AddLeaf(FlatKeys, FlatLeaves, MaxFlatArrLen)

\* The call on the root of the tree, container 1.
CallTransformToFlattenObjectOnRoot ==
  /\ Building
  /\ heap # <<>>
  /\ Call("transformToFlattenObject", <<Ref(1)>>, transformToFlattenObject(heap, Ref(1)))


MaxConflictObjs == 2

\* A flat object whose keys disagree about the segment a: a leaf by the key
\* "a", a branch by the key "a.b".  The keys are set in either order.
ConflictKeys == {<<"a">>, <<"a", ".", "b">>}
ConflictLeaves == {Undefined, Null, Num(0), Num(1), Str(<<"x">>)}

ConflictNewRoot ==
  /\ Building
  /\ heap = <<>>
  /\ heap' = <<NewObj(FALSE)>>
  /\ UNCHANGED calls

ConflictSetLeaf ==
  /\ Building
  /\ heap # <<>>
  /\ \E k \in ConflictKeys, v \in ConflictLeaves :
       /\ ~HasOwn(heap, Ref(1), k)
       /\ heap' = Put(heap, 1, k, v)
  /\ UNCHANGED calls

ConflictSetChild ==
  /\ Building
  /\ Len(heap) \in 1..(MaxConflictObjs - 1)
  /\ \E k \in ConflictKeys :
       /\ ~HasOwn(heap, Ref(1), k)
       /\ heap' = Put(Append(heap, NewObj(FALSE)), 1, k, Ref(Len(heap) + 1))
  /\ UNCHANGED calls

\* The call on the flat object, container 1.
CallTransformToUnflattenObjectOnRoot ==
  /\ Building
  /\ heap # <<>>
  /\ Call("transformToUnflattenObject", <<Ref(1)>>, transformToUnflattenObject(heap, Ref(1)))


MaxNestedObjs == 3
MaxNestedArrLen == 1

NestedKeys == <<<<"a">>, <<"b">>>>
NestedLeaves == {Undefined, Null, Num(0), Num(1), Bool(FALSE), Str(<<>>)}
NestedPaths == {Str(<<"a">>), Str(<<"a", ".", "b">>), Str(<<"a", ".", "0">>),
                Str(<<"a", ".", "b", ".", "a">>)}

NestedAddChild ==
  /\ Building
  /\ Len(heap) \in 1..(MaxNestedObjs - 1)
  /\ \E a \in 1..Len(heap), isArr \in BOOLEAN :
       \E k \in FreeSlots(a, NestedKeys, MaxNestedArrLen) :
         heap' = Put(Append(heap, NewObj(isArr)), a, k, Ref(Len(heap) + 1))
  /\ UNCHANGED calls

NestedAddLeaf == AddLeaf(NestedKeys, NestedLeaves, MaxNestedArrLen)

\* The call on the root of the tree, container 1.
CallGetNestedValueOfObjectOnRoot ==
  /\ Building
  /\ heap # <<>>
  /\ \E path \in NestedPaths :
       Call("getNestedValueOfObject", <<Ref(1), path>>,
            getNestedValueOfObject(heap, Ref(1), path))

\* The call on a root that is no container.
CallGetNestedValueOfObjectOnScalar ==
  /\ Building
  /\ heap = <<>>
  /\ \E obj \in Roots, path \in NestedPaths :
       Call("getNestedValueOfObject", <<obj, path>>,
            getNestedValueOfObject(heap, obj, path))


MaxDefinedObjs == 2
MaxDefinedArrLen == 1

DefinedKeys == <<<<"a">>, <<"b">>>>
DefinedLeaves == {Undefined, Null, Num(0), Str(<<>>), Str(<<"x">>)}
DefinedPaths == {Str(<<"a">>), Str(<<"a", ".", "b">>), Str(<<"a", ".", "0">>),
                 Str(<<"a", ".">> \o LengthKey), Str(<<"a", ".", "b", ".", "a">>)}

DefinedAddChild ==
  /\ Building
  /\ Len(heap) \in 1..(MaxDefinedObjs - 1)
  /\ \E a \in 1..Len(heap), isArr \in BOOLEAN :
       \E k \in FreeSlots(a, DefinedKeys, MaxDefinedArrLen) :
         heap' = Put(Append(heap, NewObj(isArr)), a, k, Ref(Len(heap) + 1))
  /\ UNCHANGED calls

DefinedAddLeaf == AddLeaf(DefinedKeys, DefinedLeaves, MaxDefinedArrLen)

\* The call on the root of the tree, container 1.
CallIsPropertyDefinedOnRoot ==
  /\ Building
  /\ heap # <<>>
  /\ \E prop \in DefinedPaths :
       Call("isPropertyDefined", <<Ref(1), prop>>, isPropertyDefined(heap, Ref(1), prop))

\* The call on a root that is no container.
CallIsPropertyDefinedOnScalar ==
  /\ Building
  /\ heap = <<>>
  /\ \E obj \in Roots, prop \in DefinedPaths :
       Call("isPropertyDefined", <<obj, prop>>, isPropertyDefined(heap, obj, prop))


MaxFreezeObjs == 3
MaxFreezeArrLen == 1

FreezeKeys == <<<<"a">>, <<"b">>>>
FreezeLeaves == {Num(1), Null}

FreezeAddChild ==
  /\ Building
  /\ Len(heap) \in 1..(MaxFreezeObjs - 1)
  /\ \E a \in 1..Len(heap), isArr \in BOOLEAN :
       \E k \in FreeSlots(a, FreezeKeys, MaxFreezeArrLen) :
         heap' = Put(Append(heap, NewObj(isArr)), a, k, Ref(Len(heap) + 1))
  /\ UNCHANGED calls

FreezeAddLeaf == AddLeaf(FreezeKeys, FreezeLeaves, MaxFreezeArrLen)

\* The call on a value that is no container.
CallDeepFreezeObjectOnScalar ==
  /\ Building
  /\ heap # <<>>
  /\ ~heap[1].arr
  /\ heap[1].props = <<>>
  /\ \E obj \in Roots : Call("deepFreezeObject", <<obj>>, deepFreezeObject(heap, obj))


\* The same two arguments once more, in the other order.
CallIsObjectDeepEqualSwapped ==
  /\ Len(calls) = 1
  /\ Last.op = "isObjectDeepEqual"
  /\ Call("isObjectDeepEqual", <<Last.args[2], Last.args[1]>>,
          isObjectDeepEqual(heap, Last.args[2], Last.args[1]))


MaxSharedObjs == 4

\* Two roots holding references to maps of scalars: one map may be the value
\* of several keys, of one root or of both.  No map refers to a root, so
\* nothing is cyclic.
SharedRefKeys == <<<<"a">>, <<"b">>>>
SharedLeafKeys == <<<<"a">>>>
SharedLeaves == {Num(1), Num(2)}

SharedNewMap ==
  /\ Building
  /\ Len(heap) \in 2..(MaxSharedObjs - 1)
  /\ heap' = Append(heap, NewObj(FALSE))
  /\ UNCHANGED calls

SharedSetLeaf ==
  /\ Building
  /\ \E a \in 3..Len(heap), v \in SharedLeaves :
       \E k \in FreeSlots(a, SharedLeafKeys, 0) :
         heap' = Put(heap, a, k, v)
  /\ UNCHANGED calls

SharedSetRef ==
  /\ Building
  /\ \E a \in {1, 2}, c \in 3..Len(heap) :
       \E k \in FreeSlots(a, SharedRefKeys, 0) :
         heap' = Put(heap, a, k, Ref(c))
  /\ UNCHANGED calls


CallGetAllObjectKeysOnBefore ==
  /\ Building
  /\ Len(heap) >= 2
  /\ Call("getAllObjectKeys", <<Before>>, getAllObjectKeys(heap, Before))

\* A second call, on the other root.
CallGetAllObjectKeysOnAfter ==
  /\ Len(calls) = 1
  /\ Last.op = "getAllObjectKeys"
  /\ Last.args = <<Before>>
  /\ Call("getAllObjectKeys", <<After>>, getAllObjectKeys(heap, After))

Init ==
  /\ heap = <<>>
  /\ calls = <<>>

NextGraph ==
  \/ GraphNewMap
  \/ GraphNewArray
  \/ GraphPush
  \/ GraphSetProperty
  \/ CallCloneObject
  \/ CallDeepFreezeObject
  \/ CallGetAllObjectKeys

SpecGraph == Init /\ [][NextGraph]_vars

NextTree ==
  \/ TreeNewRoot
  \/ TreeAddChild
  \/ TreeAddLeaf
  \/ CallCloneObject
  \/ CallIsObjectDeepEqualOnClone
  \/ CallTransformToFlattenObject
  \/ CallTransformToUnflattenObjectOnFlat
  \/ CallRemoveUndefinedKeys
  \/ CallRemoveUndefinedKeysAgain

SpecTree == Init /\ [][NextTree]_vars

NextPair ==
  \/ PairNewRoots
  \/ PairAddChild
  \/ PairAddLeaf
  \/ CallDiffBeforeAfter
  \/ CallMergeBeforeWithDiff

SpecPair == Init /\ [][NextPair]_vars

DiffNewMap == NewContainer(FALSE, MaxDiffObjs)

NextDiffGraph ==
  \/ DiffNewMap
  \/ GraphSetProperty
  \/ CallGetObjectDiffIterative

SpecDiffGraph == Init /\ [][NextDiffGraph]_vars

NextFrame ==
  \/ FrameNewRoot
  \/ FrameAddChild
  \/ FrameAddLeaf
  \/ CallCloneObject
  \/ CallGetObjectDiffIterative
  \/ CallGetAllObjectKeys
  \/ CallRemoveEmptyObjects
  \/ CallRemoveUndefinedKeys
  \/ CallRemoveKeysFromObject
  \/ CallMergeTwoObjects
  \/ CallOmitKeysOfObject
  \/ CallTransformToFlattenObject
  \/ CallTransformToUnflattenObject
  \/ CallGetNestedValueOfObject
  \/ CallIsPropertyDefined
  \/ CallMapValuesObject

SpecFrame == Init /\ [][NextFrame]_vars

NextRoot ==
  \/ TreeNewRoot
  \/ TreeAddLeaf
  \/ RootCallIsObject
  \/ RootCallIsPlainObject
  \/ RootCallIsObjectEmpty
  \/ RootCallIsObjectDeepEqual
  \/ RootCallIsPropertyDefined
  \/ RootCallCloneObject
  \/ RootCallGetObjectDiffIterative
  \/ RootCallGetAllObjectKeys
  \/ RootCallRemoveEmptyObjects
  \/ RootCallRemoveUndefinedKeys
  \/ RootCallRemoveKeysFromObject
  \/ RootCallMergeTwoObjects
  \/ RootCallOmitKeysOfObject
  \/ RootCallTransformToFlattenObject
  \/ RootCallTransformToUnflattenObject
  \/ RootCallGetNestedValueOfObject
  \/ RootCallDeepFreezeObject
  \/ RootCallMapValuesObject

SpecRoot == Init /\ [][NextRoot]_vars

NextEqual ==
  \/ PairNewRoots
  \/ EqualAddChild
  \/ EqualAddLeaf
  \/ CallIsObjectDeepEqual

SpecEqual == Init /\ [][NextEqual]_vars

NextScalarDiff ==
  \/ PairNewRoots
  \/ ScalarAddLeaf
  \/ CallDiffBeforeAfter

SpecScalarDiff == Init /\ [][NextScalarDiff]_vars

NextCloneDiff ==
  \/ TreeNewRoot
  \/ TreeAddChild
  \/ TreeAddLeaf
  \/ CallCloneObject
  \/ CallDiffOnClone

SpecCloneDiff == Init /\ [][NextCloneDiff]_vars

NextKindDiff ==
  \/ PairNewRoots
  \/ KindAddChild
  \/ KindAddLeaf
  \/ CallDiffBeforeAfter

SpecKindDiff == Init /\ [][NextKindDiff]_vars

NextMerge ==
  \/ PairNewRoots
  \/ MergeAddChild
  \/ MergeAddLeaf
  \/ CallMergeBeforeAfter

SpecMerge == Init /\ [][NextMerge]_vars

NextPrune ==
  \/ PruneNewRoot
  \/ PruneAddChild
  \/ PruneAddLeaf
  \/ CallRemoveEmptyObjectsOnRoot

SpecPrune == Init /\ [][NextPrune]_vars

NextNamed ==
  \/ TreeNewRoot
  \/ NamedAddChild
  \/ NamedAddLeaf
  \/ CallRemoveKeysFromObjectOnRoot

SpecNamed == Init /\ [][NextNamed]_vars


NextFlatten ==
  \/ TreeNewRoot
  \/ FlatAddChild
  \/ FlatAddLeaf
  \/ CallTransformToFlattenObjectOnRoot
  \/ CallTransformToUnflattenObjectOnFlat

SpecFlatten == Init /\ [][NextFlatten]_vars


NextConflict ==
  \/ ConflictNewRoot
  \/ ConflictSetLeaf
  \/ ConflictSetChild
  \/ CallTransformToUnflattenObjectOnRoot

SpecConflict == Init /\ [][NextConflict]_vars


NextNested ==
  \/ TreeNewRoot
  \/ NestedAddChild
  \/ NestedAddLeaf
  \/ CallGetNestedValueOfObjectOnRoot
  \/ CallGetNestedValueOfObjectOnScalar

SpecNested == Init /\ [][NextNested]_vars


NextDefined ==
  \/ TreeNewRoot
  \/ DefinedAddChild
  \/ DefinedAddLeaf
  \/ CallIsPropertyDefinedOnRoot
  \/ CallIsPropertyDefinedOnScalar

SpecDefined == Init /\ [][NextDefined]_vars


NextFreeze ==
  \/ TreeNewRoot
  \/ FreezeAddChild
  \/ FreezeAddLeaf
  \/ CallDeepFreezeObject
  \/ CallDeepFreezeObjectOnScalar

SpecFreeze == Init /\ [][NextFreeze]_vars


NextSymmetric ==
  \/ PairNewRoots
  \/ EqualAddChild
  \/ EqualAddLeaf
  \/ CallIsObjectDeepEqual
  \/ CallIsObjectDeepEqualSwapped

SpecSymmetric == Init /\ [][NextSymmetric]_vars


NextSharedDiff ==
  \/ PairNewRoots
  \/ SharedNewMap
  \/ SharedSetLeaf
  \/ SharedSetRef
  \/ CallDiffBeforeAfter

SpecSharedDiff == Init /\ [][NextSharedDiff]_vars


NextSharedKeys ==
  \/ PairNewRoots
  \/ SharedNewMap
  \/ SharedSetLeaf
  \/ SharedSetRef
  \/ CallGetAllObjectKeysOnBefore
  \/ CallGetAllObjectKeysOnAfter

SpecSharedKeys == Init /\ [][NextSharedKeys]_vars

(***************************************************************************)
(* Reading the heap: the call under discussion, reachability, cycles.      *)
(***************************************************************************)
Children(h, a) == {h[a].props[i].v.n : i \in {j \in 1..Len(h[a].props) : h[a].props[j].v.t = "ref"}}

RECURSIVE ReachSet(_, _)
ReachSet(h, S) ==
  LET T == S \cup UNION {Children(h, a) : a \in S}
  IN IF T = S THEN S ELSE ReachSet(h, T)

\* The containers reachable from value v (v itself included when a container).
Reach(h, v) == IF v.t = "ref" THEN ReachSet(h, {v.n}) ELSE {}

\* Some container reachable from v lies on a reference cycle.
Cyclic(h, v) == \E a \in Reach(h, v) : a \in ReachSet(h, Children(h, a))

SelfLoop(h, v) ==
  /\ v.t = "ref"
  /\ ~h[v.n].arr
  /\ Len(h[v.n].props) = 1
  /\ h[v.n].props[1].v = v

(***************************************************************************)
(* C1: deepFreezeObject returns (does not exhaust the call stack) on every *)
(* container graph that contains a reference cycle, e.g. a.self = a.       *)
(***************************************************************************)
C1_DeepFreezeReturnsOnCycles ==
  (Called("deepFreezeObject") /\ Cyclic(Last.pre, Last.args[1])) => Last.st = "ok"

(***************************************************************************)
(* C2: getObjectDiffIterative(a, b) returns for every pair of object       *)
(* graphs, cycles of different lengths on the two sides included, and      *)
(* yields an empty object for a = {self: a}, b = {self: b}.                *)
(***************************************************************************)
C2_DiffReturnsOnCycles ==
  Called("getObjectDiffIterative") =>
    /\ Last.st = "ok"
    /\ (SelfLoop(Last.pre, Last.args[1]) /\ SelfLoop(Last.pre, Last.args[2])
          /\ Last.pre[Last.args[1].n].props[1].k = Last.pre[Last.args[2].n].props[1].k)
        => (Last.v.t = "ref" /\ heap[Last.v.n].props = <<>>)

(***************************************************************************)
(* C3: cloneObject on a cyclic input returns, and the cycle is rebuilt     *)
(* inside the copy: every container reachable from the result is a new     *)
(* container, linked to the clones exactly as the originals are linked     *)
(* to each other; for a.self = a the result c has c.self = c and c # a.    *)
(***************************************************************************)
Relinked(pre, post, root, c) ==
  \E f \in [Reach(pre, root) -> (Len(pre) + 1)..Len(post)] :
    /\ f[root.n] = c.n
    /\ \A x \in Reach(pre, root) :
         /\ post[f[x]].arr = pre[x].arr
         /\ Len(post[f[x]].props) = Len(pre[x].props)
         /\ \A i \in 1..Len(pre[x].props) :
              /\ post[f[x]].props[i].k = pre[x].props[i].k
              /\ post[f[x]].props[i].v =
                   IF pre[x].props[i].v.t = "ref"
                   THEN Ref(f[pre[x].props[i].v.n])
                   ELSE pre[x].props[i].v

C3_CloneRebuildsCycles ==
  (Called("cloneObject") /\ Cyclic(Last.pre, Last.args[1])) =>
    /\ Last.st = "ok"
    /\ Last.v.t = "ref"
    /\ Reach(heap, Last.v) \cap (1..Len(Last.pre)) = {}
    /\ Relinked(Last.pre, heap, Last.args[1], Last.v)
    /\ SelfLoop(Last.pre, Last.args[1]) =>
         /\ SelfLoop(heap, Last.v)
         /\ Last.v # Last.args[1]

C3_Witness ==
  /\ Called("cloneObject")
  /\ SelfLoop(Last.pre, Last.args[1])
  /\ Last.st = "ok"
  /\ Get(heap, Last.v, Last.pre[Last.args[1].n].props[1].k) = Last.v

(***************************************************************************)
(* C5: getAllObjectKeys returns on every object graph with reference       *)
(* cycles; a container met again contributes no further path, so each      *)
(* non-map property of each map reached from the root is listed once, and  *)
(* obj.self = obj yields the empty list.                                   *)
(***************************************************************************)
MapChildren(h, a) ==
  {h[a].props[i].v.n :
     i \in {j \in 1..Len(h[a].props) : getAllObjectKeys_isObject(h, h[a].props[j].v)}}

RECURSIVE MapReachSet(_, _)
MapReachSet(h, S) ==
  LET T == S \cup UNION {MapChildren(h, a) : a \in S}
  IN IF T = S THEN S ELSE MapReachSet(h, T)

LeafProps(h, a) ==
  Cardinality({i \in 1..Len(h[a].props) : ~getAllObjectKeys_isObject(h, h[a].props[i].v)})

RECURSIVE SumLeafProps(_, _)
SumLeafProps(h, S) ==
  IF S = {} THEN 0
  ELSE LET a == CHOOSE x \in S : TRUE
       IN LeafProps(h, a) + SumLeafProps(h, S \ {a})

C5_AllKeysReturnsOnCycles ==
  (Called("getAllObjectKeys") /\ Cyclic(Last.pre, Last.args[1])) =>
    /\ Last.st = "ok"
    /\ IsArray(heap, Last.v)
    /\ Len(heap[Last.v.n].props) =
         IF getAllObjectKeys_isObject(Last.pre, Last.args[1])
         THEN SumLeafProps(Last.pre, MapReachSet(Last.pre, {Last.args[1].n}))
         ELSE 0
    /\ SelfLoop(Last.pre, Last.args[1]) => heap[Last.v.n].props = <<>>

C5_Witness ==
  /\ Called("getAllObjectKeys")
  /\ SelfLoop(Last.pre, Last.args[1])
  /\ Last.st = "ok"
  /\ heap[Last.v.n].props = <<>>

(***************************************************************************)
(* Structural equality of two values, each read in its own heap: the same  *)
(* kind of container with the same keys and structurally equal values, or  *)
(* the same scalar.                                                        *)
(***************************************************************************)
RECURSIVE SameTree(_, _, _, _)
SameTree(h1, v1, h2, v2) ==
  IF v1.t = "ref" /\ v2.t = "ref"
  THEN /\ h1[v1.n].arr = h2[v2.n].arr
       /\ Len(h1[v1.n].props) = Len(h2[v2.n].props)
       /\ \A i \in 1..Len(h1[v1.n].props) :
            /\ HasOwn(h2, v2, h1[v1.n].props[i].k)
            /\ SameTree(h1, h1[v1.n].props[i].v, h2, Get(h2, v2, h1[v1.n].props[i].k))
  ELSE v1 = v2

LeavesOf(h, v) ==
  IF v.t = "ref"
  THEN UNION {{h[a].props[i].v : i \in 1..Len(h[a].props)} : a \in Reach(h, v)}
       \ {Ref(a) : a \in 1..Len(h)}
  ELSE {v}

\* The containers reachable from v other than v itself.
Nested(h, v) == Reach(h, v) \ {v.n}

NoArrays(h, v) == \A a \in Reach(h, v) : ~h[a].arr

(***************************************************************************)
(* C4 as claimed: for every acyclic tree t, isObjectDeepEqual(             *)
(* cloneObject(t), t) is true, no container of the clone is a container    *)
(* of t, and the leaves are carried over unchanged.                        *)
(***************************************************************************)
CloneThenCompared ==
  /\ Len(calls) = 2
  /\ calls[1].op = "cloneObject"
  /\ calls[2].op = "isObjectDeepEqual"

C4_CloneDeepEqualAndIndependent ==
  CloneThenCompared =>
    /\ calls[2].v = Bool(TRUE)
    /\ Reach(heap, calls[1].v) \cap Reach(heap, calls[1].args[1]) = {}
    /\ SameTree(heap, calls[1].v, heap, calls[1].args[1])

(***************************************************************************)
(* C4 amended: the clone shares no container with t and is structurally    *)
(* equal to t, leaves (functions included) carried over by identity;       *)
(* isObjectDeepEqual(cloneObject(t), t) is true exactly when t holds no    *)
(* NaN (NaN === NaN is false).                                             *)
(***************************************************************************)
C4_CloneIndependentEqualUnlessNaN ==
  CloneThenCompared =>
    /\ calls[2].st = "ok"
    /\ calls[2].v = Bool(NaN \notin LeavesOf(heap, calls[1].args[1]))
    /\ Reach(heap, calls[1].v) \cap Reach(heap, calls[1].args[1]) = {}
    /\ SameTree(heap, calls[1].v, heap, calls[1].args[1])

C4_Witness ==
  /\ CloneThenCompared
  /\ calls[2].v = Bool(TRUE)
  /\ Nested(heap, calls[1].args[1]) # {}
  /\ Fn(1) \in LeavesOf(heap, calls[1].v)

(***************************************************************************)
(* C6 as claimed: for every tree t without arrays (keys hold no dot),      *)
(* empty nested maps included, unflatten(flatten(t)) is structurally       *)
(* equal to t.                                                             *)
(***************************************************************************)
FlattenedThenUnflattened ==
  /\ Len(calls) = 2
  /\ calls[1].op = "transformToFlattenObject"
  /\ calls[2].op = "transformToUnflattenObject"
  /\ NoArrays(heap, calls[1].args[1])

C6_RoundTrip ==
  FlattenedThenUnflattened =>
    /\ calls[2].st = "ok"
    /\ SameTree(heap, calls[2].v, heap, calls[1].args[1])

(***************************************************************************)
(* C6 with non-empty keys: the round trip gives back a map-only tree t     *)
(* exactly when none of its nested maps is empty (flatten leaves no trace  *)
(* of an empty nested map, so it is lost).  Under an empty-string key the  *)
(* round trip fails for another reason, the path prefix test of flatten    *)
(* (see C23).                                                              *)
(***************************************************************************)
NoEmptyNested(h, v) == \A a \in Nested(h, v) : h[a].props # <<>>

C6_RoundTripWithoutEmptyNested ==
  FlattenedThenUnflattened =>
    /\ calls[2].st = "ok"
    /\ SameTree(heap, calls[2].v, heap, calls[1].args[1])
         <=> NoEmptyNested(heap, calls[1].args[1])

C6_Witness ==
  /\ FlattenedThenUnflattened
  /\ Nested(heap, calls[1].args[1]) # {}
  /\ NoEmptyNested(heap, calls[1].args[1])
  /\ SameTree(heap, calls[2].v, heap, calls[1].args[1])

(***************************************************************************)
(* C8: removeUndefinedKeys is idempotent: a second application to the      *)
(* result of the first returns a structurally equal value.                 *)
(***************************************************************************)
RemovedUndefinedTwice ==
  /\ Len(calls) = 2
  /\ calls[1].op = "removeUndefinedKeys"
  /\ calls[2].op = "removeUndefinedKeys"

C8_RemoveUndefinedIdempotent ==
  RemovedUndefinedTwice =>
    /\ calls[2].st = "ok"
    /\ SameTree(heap, calls[2].v, heap, calls[1].v)

C8_Witness ==
  /\ RemovedUndefinedTwice
  /\ Undefined \in LeavesOf(heap, calls[1].args[1])
  /\ Nested(heap, calls[1].args[1]) # {}
  /\ ~SameTree(heap, calls[1].v, heap, calls[1].args[1])
  /\ SameTree(heap, calls[2].v, heap, calls[1].v)

(***************************************************************************)
(* C7: for map-only trees before and after, where after keeps every key of *)
(* before at every level (values may change, also from a nested map to a   *)
(* scalar or null), mergeTwoObjects(before, getObjectDiffIterative(before, *)
(* after)) is structurally equal to after.                                 *)
(***************************************************************************)
RECURSIVE Additive(_, _, _)
Additive(h, b, a) ==
  \A i \in 1..Len(h[b.n].props) :
    LET k == h[b.n].props[i].k
    IN /\ HasOwn(h, a, k)
       /\ (Get(h, b, k).t = "ref" /\ Get(h, a, k).t = "ref")
            => Additive(h, Get(h, b, k), Get(h, a, k))

DiffedThenMerged ==
  /\ Len(calls) = 2
  /\ calls[1].op = "getObjectDiffIterative"
  /\ calls[2].op = "mergeTwoObjects"

C7_MergeOfDiffRecoversAfter ==
  (DiffedThenMerged /\ Additive(heap, Before, After)) =>
    /\ calls[2].st = "ok"
    /\ SameTree(heap, calls[2].v, heap, After)

(***************************************************************************)
(* C9.  Every operation except deepFreezeObject leaves its arguments       *)
(* unchanged: after the call, every container that was reachable from an   *)
(* argument owns the same keys with the same values as before the call.    *)
(* This includes transformToUnflattenObject on a flat input whose values   *)
(* are containers.                                                         *)
(***************************************************************************)
ReachArgs(c) == UNION {Reach(c.pre, c.args[i]) : i \in 1..Len(c.args)}

C9_ArgumentsUnchanged ==
  (calls # <<>> /\ Last.op # "deepFreezeObject")
    => \A a \in ReachArgs(Last) : heap[a] = Last.pre[a]

(***************************************************************************)
(* C10.  No operation throws on a root argument that is no container: a    *)
(* call of any public function with a number, a string, a boolean, null or *)
(* undefined where a container is expected completes without raising an    *)
(* exception.                                                              *)
(***************************************************************************)
RootArity(op) ==
  IF op \in {"isObjectDeepEqual", "getObjectDiffIterative", "mergeTwoObjects"}
  THEN 2
  ELSE 1

NonContainerRoot(c) == \E i \in 1..RootArity(c.op) : c.args[i] \in Roots

C10_NoThrowOnNonContainerRoot ==
  (calls # <<>> /\ NonContainerRoot(Last)) => Last.st = "ok"

(***************************************************************************)
(* C11.  For two maps a and b, isObjectDeepEqual(a, b) is true exactly     *)
(* when they own the same number of keys and, for every key that a owns,   *)
(* b owns that key too and the two values are deep-equal.  A key that a    *)
(* owns with the value undefined does not match a key that b lacks.        *)
(***************************************************************************)
IsMap(h, v) == v.t = "ref" /\ ~h[v.n].arr

\* b owns every key of a, with a deep-equal value.
KeysMatch(h, a, b) ==
  \A i \in 1..Len(h[a.n].props) :
     /\ HasOwn(h, b, h[a.n].props[i].k)
     /\ isObjectDeepEqual(h, h[a.n].props[i].v, Get(h, b, h[a.n].props[i].k)).v
          = Bool(TRUE)

C11_DeepEqualIffSameKeysAndValues ==
  (/\ Called("isObjectDeepEqual")
   /\ IsMap(Last.pre, Last.args[1])
   /\ IsMap(Last.pre, Last.args[2]))
    => ((Last.v = Bool(TRUE))
          <=> (/\ Len(Last.pre[Last.args[1].n].props) = Len(Last.pre[Last.args[2].n].props)
               /\ KeysMatch(Last.pre, Last.args[1], Last.args[2])))

(***************************************************************************)
(* C12.  For two maps before and after whose values are scalars, the diff  *)
(* owns exactly: the keys only after owns, with after's value; the keys    *)
(* only before owns, as own keys with the value undefined; the keys both   *)
(* own whose values differ under ===, with after's value.  Keys whose      *)
(* values are identical are left out.                                      *)
(***************************************************************************)
ScalarValues(h, v) ==
  IsMap(h, v) /\ \A i \in 1..Len(h[v.n].props) : h[v.n].props[i].v.t # "ref"

KeySet(h, v) == {h[v.n].props[i].k : i \in 1..Len(h[v.n].props)}

\* Map df holds the flat difference from map a to map b of heap h0.
FlatDiff(h, df, h0, a, b) ==
  /\ IsMap(h, df)
  /\ \A k \in KeySet(h, df) \cup KeySet(h0, a) \cup KeySet(h0, b) :
       IF ~HasOwn(h0, a, k)
       THEN HasOwn(h, df, k) /\ Get(h, df, k) = Get(h0, b, k)
       ELSE IF ~HasOwn(h0, b, k)
       THEN HasOwn(h, df, k) /\ Get(h, df, k) = Undefined
       ELSE IF ~StrictEq(Get(h0, a, k), Get(h0, b, k))
       THEN HasOwn(h, df, k) /\ Get(h, df, k) = Get(h0, b, k)
       ELSE ~HasOwn(h, df, k)

ScalarDiffed ==
  /\ Called("getObjectDiffIterative")
  /\ ScalarValues(Last.pre, Last.args[1])
  /\ ScalarValues(Last.pre, Last.args[2])

C12_DiffOfScalarMaps ==
  ScalarDiffed
    => /\ Last.st = "ok"
       /\ FlatDiff(heap, Last.v, Last.pre, Last.args[1], Last.args[2])

\* A diff with an added key, a removed key and a modified key.
C12_Witness ==
  /\ ScalarDiffed
  /\ Last.st = "ok"
  /\ \E k \in KeySet(Last.pre, After) : ~HasOwn(Last.pre, Before, k)
  /\ \E k \in KeySet(Last.pre, Before) :
       ~HasOwn(Last.pre, After, k) /\ HasOwn(heap, Last.v, k)
  /\ \E k \in KeySet(Last.pre, Before) :
       /\ HasOwn(Last.pre, After, k)
       /\ Get(Last.pre, Before, k) # Get(Last.pre, After, k)

(***************************************************************************)
(* C13 as claimed: for every acyclic tree t and its copy t' made of        *)
(* distinct containers by cloneObject, getObjectDiffIterative(t, t') is an *)
(* empty object.                                                           *)
(***************************************************************************)
CloneThenDiffed ==
  /\ Len(calls) = 2
  /\ calls[1].op = "cloneObject"
  /\ calls[2].op = "getObjectDiffIterative"

EmptyObject(h, v) == IsMap(h, v) /\ h[v.n].props = <<>>

C13_DiffOfCopyIsEmpty ==
  CloneThenDiffed => (calls[2].st = "ok" /\ EmptyObject(heap, calls[2].v))

(***************************************************************************)
(* C13 amended: the diff of a tree t and its copy is a map, and it is      *)
(* empty exactly when t holds no NaN (NaN !== NaN, so a NaN leaf is        *)
(* reported as modified at its position).                                  *)
(***************************************************************************)
C13_DiffOfCopyIsEmptyUnlessNaN ==
  CloneThenDiffed =>
    /\ calls[2].st = "ok"
    /\ IsMap(heap, calls[2].v)
    /\ EmptyObject(heap, calls[2].v) <=> NaN \notin LeavesOf(heap, calls[1].args[1])

\* A tree with a nested container that holds a leaf, diffed to the empty map.
C13_Witness ==
  /\ CloneThenDiffed
  /\ EmptyObject(heap, calls[2].v)
  /\ \E a \in Nested(heap, calls[1].args[1]) : heap[a].props # <<>>

(***************************************************************************)
(* C14.  In getObjectDiffIterative, when both sides own a key and the two  *)
(* values are not containers of the same kind (an array and a map, or a    *)
(* container and a scalar), the diff holds after's value under that key; a *)
(* nested diff is produced only for two arrays or two maps.                *)
(***************************************************************************)
SameKind(h, x, y) ==
  x.t = "ref" /\ y.t = "ref" /\ h[x.n].arr = h[y.n].arr

SharedKeys(h, a, b) == KeySet(h, a) \cap KeySet(h, b)

MapsDiffed ==
  /\ Called("getObjectDiffIterative")
  /\ IsMap(Last.pre, Last.args[1])
  /\ IsMap(Last.pre, Last.args[2])

\* The diff df of heap h holds, under key k, the value vb of heap h0.
HoldsAfter(h, df, k, h0, vb) ==
  /\ IsMap(h, df)
  /\ HasOwn(h, df, k)
  /\ SameTree(h, Get(h, df, k), h0, vb)

C14_RawAfterUnlessSameKind ==
  MapsDiffed =>
    /\ Last.st = "ok"
    /\ \A k \in SharedKeys(Last.pre, Last.args[1], Last.args[2]) :
         LET va == Get(Last.pre, Last.args[1], k)
             vb == Get(Last.pre, Last.args[2], k)
         IN (~StrictEq(va, vb) /\ ~SameKind(Last.pre, va, vb))
              => HoldsAfter(heap, Last.v, k, Last.pre, vb)

(***************************************************************************)
(* C15.  In getObjectDiffIterative, two arrays of unequal length are not   *)
(* diffed position by position: the diff holds the complete after array,   *)
(* as an array, under their key.                                           *)
(***************************************************************************)
C15_UnequalArraysReplaced ==
  MapsDiffed =>
    /\ Last.st = "ok"
    /\ \A k \in SharedKeys(Last.pre, Last.args[1], Last.args[2]) :
         LET va == Get(Last.pre, Last.args[1], k)
             vb == Get(Last.pre, Last.args[2], k)
         IN (/\ IsArray(Last.pre, va)
             /\ IsArray(Last.pre, vb)
             /\ Len(Last.pre[va.n].props) # Len(Last.pre[vb.n].props))
              => HoldsAfter(heap, Last.v, k, Last.pre, vb)

(***************************************************************************)
(* C16.  In mergeTwoObjects(a, b), for every key both inputs own: two      *)
(* arrays give a's elements followed by b's; two maps give their recursive *)
(* merge; in every other case (a's value a container and b's a scalar,     *)
(* null or a container of the other kind included) the result holds b's    *)
(* value.                                                                  *)
(***************************************************************************)
MapsMerged ==
  /\ Called("mergeTwoObjects")
  /\ IsMap(Last.pre, Last.args[1])
  /\ IsMap(Last.pre, Last.args[2])

Elements(h, v) == [i \in 1..Len(h[v.n].props) |-> h[v.n].props[i].v]

\* Value m of heap h is what the claim prescribes for the values va and vb
\* of heap h0 found under one key of both inputs.
MergedValue(h, m, h0, va, vb) ==
  IF IsArray(h0, va) /\ IsArray(h0, vb)
  THEN IsArray(h, m) /\ Elements(h, m) = Elements(h0, va) \o Elements(h0, vb)
  ELSE IF IsMap(h0, va) /\ IsMap(h0, vb)
  THEN /\ mergeTwoObjects(h0, va, vb).st = "ok"
       /\ SameTree(h, m, mergeTwoObjects(h0, va, vb).h, mergeTwoObjects(h0, va, vb).v)
  ELSE m = vb

C16_SharedKeysMerged ==
  MapsMerged =>
    /\ Last.st = "ok"
    /\ IsMap(heap, Last.v)
    /\ \A k \in SharedKeys(Last.pre, Last.args[1], Last.args[2]) :
         /\ HasOwn(heap, Last.v, k)
         /\ MergedValue(heap, Get(heap, Last.v, k), Last.pre,
                        Get(Last.pre, Last.args[1], k), Get(Last.pre, Last.args[2], k))

(***************************************************************************)
(* C17.  For two maps a and b, mergeTwoObjects(a, b) owns exactly the keys *)
(* that a or b owns, and a key only one input owns maps to the very value  *)
(* that input holds (the same reference, not a copy).                      *)
(***************************************************************************)
C17_MergeOwnsUnionOfKeys ==
  MapsMerged =>
    /\ Last.st = "ok"
    /\ IsMap(heap, Last.v)
    /\ KeySet(heap, Last.v) = KeySet(Last.pre, Last.args[1]) \cup KeySet(Last.pre, Last.args[2])
    /\ \A k \in KeySet(Last.pre, Last.args[1]) \ KeySet(Last.pre, Last.args[2]) :
         Get(heap, Last.v, k) = Get(Last.pre, Last.args[1], k)
    /\ \A k \in KeySet(Last.pre, Last.args[2]) \ KeySet(Last.pre, Last.args[1]) :
         Get(heap, Last.v, k) = Get(Last.pre, Last.args[2], k)

(***************************************************************************)
(* C18.  mergeTwoObjects returns undefined whenever either argument is not *)
(* an object (null, undefined or a primitive), whatever the other is.      *)
(***************************************************************************)
C18_MergeOfNonObjectIsUndefined ==
  (Called("mergeTwoObjects") /\ NonContainerRoot(Last))
    => (Last.st = "ok" /\ Last.v = Undefined)

(***************************************************************************)
(* C19.  The result of removeEmptyObjects holds no empty map at any depth, *)
(* neither as a map value nor as an array element: a map whose children    *)
(* all prune away becomes undefined and its key leaves the parent, a root  *)
(* map left without keys yields undefined, and null values are retained.   *)
(***************************************************************************)
Pruned == Called("removeEmptyObjects") /\ Last.args[1].t = "ref"

\* The value removeEmptyObjects gives for value v of heap h.
PrunesAway(h, v) == removeEmptyObjects(h, v).v = Undefined

\* The keys of map a whose values do not prune away.
KeptKeys(h, a) ==
  {h[a.n].props[i].k : i \in {j \in 1..Len(h[a.n].props) : ~PrunesAway(h, h[a.n].props[j].v)}}

C19_NoEmptyMapSurvives ==
  Pruned =>
    /\ Last.st = "ok"
    /\ \A a \in Reach(heap, Last.v) : ~heap[a].arr => heap[a].props # <<>>
    /\ IsMap(Last.pre, Last.args[1]) =>
         /\ (Last.v = Undefined) <=> (KeptKeys(Last.pre, Last.args[1]) = {})
         /\ Last.v # Undefined =>
              /\ IsMap(heap, Last.v)
              /\ KeySet(heap, Last.v) = KeptKeys(Last.pre, Last.args[1])
         /\ \A k \in KeySet(Last.pre, Last.args[1]) :
              Get(Last.pre, Last.args[1], k) = Null => Get(heap, Last.v, k) = Null

\* A map with a null value and a nested map whose children all prune away.
C19_Witness ==
  /\ Pruned
  /\ IsMap(Last.pre, Last.args[1])
  /\ Last.v # Undefined
  /\ \E k \in KeySet(Last.pre, Last.args[1]) : Get(Last.pre, Last.args[1], k) = Null
  /\ \E k \in KeySet(Last.pre, Last.args[1]) :
       /\ IsMap(Last.pre, Get(Last.pre, Last.args[1], k))
       /\ ~HasOwn(heap, Last.v, k)

(***************************************************************************)
(* C20.  removeEmptyObjects never prunes an array: applied to an array it  *)
(* returns an array (an empty array stays [], also when every element      *)
(* prunes away) whose elements are the pruned images of the input's        *)
(* elements, in their order, without those that pruned to undefined.       *)
(***************************************************************************)
ArrayPruned == Pruned /\ IsArray(Last.pre, Last.args[1])

\* The elements of array a whose images are not undefined, in order.
KeptElements(h, a) ==
  SelectSeq(Elements(h, a), LAMBDA e : ~PrunesAway(h, e))

KeysRemoved == Called("removeKeysFromObject") /\ Last.args[1].t = "ref"

\* The names held by the array of names of the call.
Names == {Last.pre[Last.args[2].n].props[i].v.s : i \in 1..Len(Last.pre[Last.args[2].n].props)}

MapsOf(h, v) == {a \in Reach(h, v) : ~h[a].arr}

C21_NamedKeysGone ==
  KeysRemoved =>
    /\ Last.st = "ok"
    /\ \A a \in MapsOf(heap, Last.v) : KeySet(heap, Ref(a)) \cap Names = {}

\* A named key owned by a map that is an element of an array of the input.
C21_Witness ==
  /\ KeysRemoved
  /\ Last.st = "ok"
  /\ \E a \in Reach(Last.pre, Last.args[1]) :
       /\ Last.pre[a].arr
       /\ \E i \in 1..Len(Last.pre[a].props) :
            /\ IsMap(Last.pre, Last.pre[a].props[i].v)
            /\ KeySet(Last.pre, Last.pre[a].props[i].v) \cap Names # {}

(***************************************************************************)
(* C22.  removeKeysFromObject removes nothing but the named keys: every    *)
(* own key whose name is not in names is kept at every level whatever its  *)
(* value (null, undefined, an empty container), so when no key of the tree *)
(* is in names the result is deep-equal to the input.                      *)
(***************************************************************************)
C22_OnlyNamedKeysRemoved ==
  KeysRemoved =>
    /\ Last.st = "ok"
    /\ IsMap(Last.pre, Last.args[1]) =>
         /\ IsMap(heap, Last.v)
         /\ KeySet(heap, Last.v) = KeySet(Last.pre, Last.args[1]) \ Names
    /\ (\A a \in MapsOf(Last.pre, Last.args[1]) : KeySet(Last.pre, Ref(a)) \cap Names = {})
         => SameTree(heap, Last.v, Last.pre, Last.args[1])


(***************************************************************************)
(* The leaves of a tree with their paths: the keys and indices from the    *)
(* root to the leaf, joined by dots.                                       *)
(***************************************************************************)
RECURSIVE LeafEntries(_, _, _, _)
LeafEntries(h, a, path, top) ==
  UNION {LET key == h[a].props[i].k
             value == h[a].props[i].v
             p == IF top THEN key ELSE path \o <<".">> \o key
         IN IF value.t = "ref"
            THEN LeafEntries(h, value.n, p, FALSE)
            ELSE {[k |-> p, v |-> value]} : i \in 1..Len(h[a].props)}

RECURSIVE LeafCount(_, _)
LeafCount(h, S) ==
  IF S = {} THEN 0
  ELSE LET a == CHOOSE x \in S : TRUE
       IN Cardinality({i \in 1..Len(h[a].props) : h[a].props[i].v.t # "ref"})
            + LeafCount(h, S \ {a})

Flattened ==
  /\ calls # <<>>
  /\ calls[1].op = "transformToFlattenObject"
  /\ calls[1].args[1].t = "ref"

FlatResult == calls[1].v

(***************************************************************************)
(* C23: for an acyclic container t whose keys contain no dot,              *)
(* transformToFlattenObject(t) is a map that owns exactly one entry per    *)
(* non-container leaf of t, keyed by the dot-joined path of that leaf and  *)
(* holding its value, and none of its values is a container.               *)
(***************************************************************************)
C23_FlattenIsSingleLevel ==
  Flattened =>
    /\ calls[1].st = "ok"
    /\ IsMap(heap, FlatResult)
    /\ \A i \in 1..Len(heap[FlatResult.n].props) : heap[FlatResult.n].props[i].v.t # "ref"
    /\ {[k |-> heap[FlatResult.n].props[i].k, v |-> heap[FlatResult.n].props[i].v] :
          i \in 1..Len(heap[FlatResult.n].props)}
         = LeafEntries(calls[1].pre, calls[1].args[1].n, <<>>, TRUE)
    /\ Len(heap[FlatResult.n].props)
         = LeafCount(calls[1].pre, Reach(calls[1].pre, calls[1].args[1]))


(***************************************************************************)
(* C24: when the flat object owns both "a" and "a.b",                      *)
(* transformToUnflattenObject returns, and the value of the key processed  *)
(* later is in the result: under a when "a" is the later key, under b of   *)
(* the container at a when "a.b" is the later key.                         *)
(***************************************************************************)
KeyA == <<"a">>
KeyAB == <<"a", ".", "b">>

Conflicting ==
  /\ Called("transformToUnflattenObject")
  /\ HasOwn(Last.pre, Last.args[1], KeyA)
  /\ HasOwn(Last.pre, Last.args[1], KeyAB)

\* for-in visits string keys in insertion order.
LaterKey ==
  IF KeyIdx(Last.pre[Last.args[1].n], KeyA) > KeyIdx(Last.pre[Last.args[1].n], KeyAB)
  THEN KeyA ELSE KeyAB

C24_LaterKeyWins ==
  Conflicting =>
    /\ Last.st = "ok"
    /\ IsMap(heap, Last.v)
    /\ IF LaterKey = KeyA
       THEN /\ HasOwn(heap, Last.v, <<"a">>)
            /\ GetV(heap, Last.v, <<"a">>) = GetV(Last.pre, Last.args[1], KeyA)
       ELSE /\ HasOwn(heap, GetV(heap, Last.v, <<"a">>), <<"b">>)
            /\ GetV(heap, GetV(heap, Last.v, <<"a">>), <<"b">>)
                 = GetV(Last.pre, Last.args[1], KeyAB)


(***************************************************************************)
(* Walking a path: from segment i on, every segment is an own key of the   *)
(* container reached so far; the value the walk ends at.                   *)
(***************************************************************************)
RECURSIVE Resolves(_, _, _, _)
Resolves(h, v, parts, i) ==
  \/ i > Len(parts)
  \/ /\ HasOwn(h, v, parts[i])
     /\ Resolves(h, Get(h, v, parts[i]), parts, i + 1)

RECURSIVE StoredValue(_, _, _, _)
StoredValue(h, v, parts, i) ==
  IF i > Len(parts) THEN v ELSE StoredValue(h, Get(h, v, parts[i]), parts, i + 1)

(***************************************************************************)
(* C25: getNestedValueOfObject(root, path) returns the stored value when   *)
(* root is a container and every segment of the path resolves, and         *)
(* undefined otherwise: a scalar or null on the way, a missing segment, a  *)
(* root that is no container.                                              *)
(***************************************************************************)
C25_UndefinedUnlessPathResolves ==
  Called("getNestedValueOfObject") =>
    /\ Last.st = "ok"
    /\ Last.v = IF Last.args[1].t = "ref"
                   /\ Resolves(Last.pre, Last.args[1], Split(Last.args[2].s), 1)
                THEN StoredValue(Last.pre, Last.args[1], Split(Last.args[2].s), 1)
                ELSE Undefined


(***************************************************************************)
(* The own keys of a value: the properties of a container, the length of   *)
(* an array, the character indices and the length of a string; no other    *)
(* scalar owns a key.                                                      *)
(***************************************************************************)
Owns(h, v, k) ==
  \/ /\ v.t = "ref"
     /\ \/ \E i \in 1..Len(h[v.n].props) : h[v.n].props[i].k = k
        \/ h[v.n].arr /\ k = LengthKey
  \/ /\ v.t = "string"
     /\ \/ \E i \in 0..(Len(v.s) - 1) : k = IndexKey(i)
        \/ k = LengthKey

\* Every segment from the i-th on is an own key of the value reached so far.
RECURSIVE OwnedPath(_, _, _, _)
OwnedPath(h, v, parts, i) ==
  \/ i > Len(parts)
  \/ /\ Owns(h, v, parts[i])
     /\ OwnedPath(h, GetV(h, v, parts[i]), parts, i + 1)

\* The same, every value a segment is looked up in being truthy.
RECURSIVE TruthyOwnedPath(_, _, _, _)
TruthyOwnedPath(h, v, parts, i) ==
  \/ i > Len(parts)
  \/ /\ Truthy(v)
     /\ Owns(h, v, parts[i])
     /\ TruthyOwnedPath(h, GetV(h, v, parts[i]), parts, i + 1)

PropertyAsked == Called("isPropertyDefined")

Frozen(h) == {a \in 1..Len(h) : h[a].frozen}

Froze == Called("deepFreezeObject")

C27_FreezesAllReachable ==
  Froze =>
    /\ Last.st = "ok"
    /\ Len(heap) = Len(Last.pre)
    /\ \A a \in 1..Len(heap) :
         /\ heap[a].props = Last.pre[a].props
         /\ heap[a].arr = Last.pre[a].arr
    /\ IF Last.args[1].t = "ref"
       THEN /\ Last.v = Last.args[1]
            /\ Reach(Last.pre, Last.args[1]) \subseteq Frozen(heap)
       ELSE /\ Last.v = Undefined
            /\ Frozen(heap) = Frozen(Last.pre)

\* Three containers are reachable from the argument, none frozen before.
C27_Witness ==
  /\ Froze
  /\ Last.st = "ok"
  /\ Last.v = Last.args[1]
  /\ Cardinality(Reach(Last.pre, Last.args[1])) >= 3
  /\ Frozen(Last.pre) = {}
  /\ Reach(Last.pre, Last.args[1]) \subseteq Frozen(heap)


(***************************************************************************)
(* C28: isObjectDeepEqual is symmetric: for acyclic a and b, maps owning   *)
(* keys with the value undefined included, isObjectDeepEqual(a, b) and     *)
(* isObjectDeepEqual(b, a) return the same.                                *)
(***************************************************************************)
ComparedBothWays ==
  /\ Len(calls) = 2
  /\ calls[1].op = "isObjectDeepEqual"
  /\ calls[2].op = "isObjectDeepEqual"
  /\ calls[2].args = <<calls[1].args[2], calls[1].args[1]>>

C28_DeepEqualSymmetric ==
  ComparedBothWays =>
    /\ calls[1].st = "ok"
    /\ calls[2].st = "ok"
    /\ calls[1].v = calls[2].v


(***************************************************************************)
(* C29: when one map s is the value of two keys of before, one map t the   *)
(* value of the same two keys of after, and s and t differ, the diff owns  *)
(* both keys and holds the difference from s to t under each.              *)
(***************************************************************************)
\* Maps a and b of scalars differ: a key of one only, or a key with two values.
Differ(h, a, b) ==
  \E k \in KeySet(h, a) \cup KeySet(h, b) :
     ~(HasOwn(h, a, k) /\ HasOwn(h, b, k) /\ StrictEq(Get(h, a, k), Get(h, b, k)))

\* s under k1 and k2 of before, t under k1 and k2 of after.
SharedUnder(h, k1, k2, s, t) ==
  /\ k1 # k2
  /\ s # t
  /\ Get(h, Before, k1) = s /\ Get(h, Before, k2) = s
  /\ Get(h, After, k1) = t /\ Get(h, After, k2) = t
  /\ ScalarValues(h, s) /\ ScalarValues(h, t)
  /\ Differ(h, s, t)

SharedDiffed == Called("getObjectDiffIterative") /\ Last.args = <<Before, After>>

C29_DiffUnderEveryKey ==
  SharedDiffed =>
    \A k1 \in KeySet(Last.pre, Before), k2 \in KeySet(Last.pre, Before) :
      \A s \in {Get(Last.pre, Before, k1)}, t \in {Get(Last.pre, After, k1)} :
        SharedUnder(Last.pre, k1, k2, s, t) =>
          /\ Last.st = "ok"
          /\ HasOwn(heap, Last.v, k1)
          /\ FlatDiff(heap, Get(heap, Last.v, k1), Last.pre, s, t)
          /\ HasOwn(heap, Last.v, k2)
          /\ FlatDiff(heap, Get(heap, Last.v, k2), Last.pre, s, t)


(***************************************************************************)
(* C30: getAllObjectKeys depends on the structure of its input only.  When *)
(* one map is the value of two keys of the input, the paths of its leaves  *)
(* are listed under both keys; and two deep-equal inputs give the same     *)
(* list of paths.                                                          *)
(***************************************************************************)
\* The paths the array v of heap h lists.
Listed(h, v) == {h[v.n].props[i].v : i \in 1..Len(h[v.n].props)}

PathList(h, v) == [i \in 1..Len(h[v.n].props) |-> h[v.n].props[i].v]

KeysListed ==
  /\ calls # <<>>
  /\ calls[1].op = "getAllObjectKeys"
  /\ calls[1].args = <<Before>>

C30_PathsIndependentOfSharing ==
  KeysListed =>
    /\ calls[1].st = "ok"
    /\ \A k1 \in KeySet(calls[1].pre, Before), k2 \in KeySet(calls[1].pre, Before) :
         LET s == Get(calls[1].pre, Before, k1)
         IN (k1 # k2 /\ s.t = "ref" /\ Get(calls[1].pre, Before, k2) = s) =>
              \A j \in KeySet(calls[1].pre, s) :
                 /\ Str(k1 \o <<".">> \o j) \in Listed(heap, calls[1].v)
                 /\ Str(k2 \o <<".">> \o j) \in Listed(heap, calls[1].v)
    /\ (Len(calls) = 2 /\ SameTree(calls[1].pre, Before, calls[1].pre, After)) =>
         /\ calls[2].st = "ok"
         /\ PathList(heap, calls[2].v) = PathList(heap, calls[1].v)

====
